---- MODULE Spec2Model ----
(***************************************************************************)
(* A state-machine model of the option-analytics engine:                   *)
(*   - MonteCarloOptionPricer::priceCallOption / pricePutOption, the       *)
(*     chunked parallel pricer (dispatch loop, chunk tasks, retrieval      *)
(*     loop with the progress callback);                                   *)
(*   - BlackScholes::calculateImpliedVolatility, the Newton-Raphson loop   *)
(*     and its bisection fallback, over a fixed-point Black-Scholes        *)
(*     kernel.                                                             *)
(***************************************************************************)
EXTENDS Integers, Sequences, FiniteSets, TLC

(***************************************************************************)
(* Bounds of the model and constants of the program.                       *)
(***************************************************************************)
\* constexpr int MIN_CHUNK = 500;
MIN_CHUNK == 500
\* num_simulations is drawn from -1..MaxSims: the values around 0, those
\* around every multiple of MIN_CHUNK, and MaxSims itself.
MaxSims == 1501
\* std::thread::hardware_concurrency() is drawn from 0..MaxWorkers (0: the
\* value is "not computable", which the standard allows).
MaxWorkers == 3
\* std::random_device yields a seed in 0..MaxSeed.
MaxSeed == 1
\* A chunk's payoff sum is drawn from 0..MaxChunkPayoff.
MaxChunkPayoff == 1

Max(x, y) == IF x >= y THEN x ELSE y
Min(x, y) == IF x <= y THEN x ELSE y

VARIABLES
    mc_pc,            \* position of the calling thread in price*Option
    option_kind,      \* "call": priceCallOption, "put": pricePutOption
    num_simulations,  \* the argument
    progress_cb,      \* whether a non-empty callback was passed
    n, n_workers, chunk_size,
    futures,          \* the vector of futures, each with its task
    start,            \* the dispatch loop's variable
    done,
    sum_payoffs,
    idx,              \* the retrieval loop's i
    cb_log,           \* the invocations of progress_cb, in order
    touched,          \* the memory accesses made so far
    mc_return,        \* what the call returned
    \* BlackScholes::calculateImpliedVolatility
    iv_pc,            \* position in calculateImpliedVolatility
    market_price, spot_price, strike_price, risk_free_rate, time_to_expiry,
    option_type,      \* the arguments
    volatility,       \* the Newton estimate
    iv_i,             \* the Newton loop's i
    bis_a, bis_b, bis_fa, bis_fb,   \* a, b, fa, fb of impliedVolatilityBisection
    bis_i,            \* the bisection loop's i
    iv_return,        \* what the call returned or threw
    iv_trace,         \* what the call has done so far
    \* BlackScholes::calculate*Price and BlackScholesGreeks::calculate*Greeks
    bs_pc,            \* "idle", or "called" once the arguments are fixed
    bs_args,          \* the arguments the four functions are called with
    call_price,       \* what calculateCallPrice returned or threw
    put_price,        \* what calculatePutPrice returned or threw
    call_greeks,      \* what calculateCallGreeks returned
    put_greeks,       \* what calculatePutGreeks returned
    \* OptionStrategyFactory and the OptionStrategy classes
    st_pc,            \* "idle", "constructed" or "threw"
    st_request,       \* the factory or constructor call that was made
    st_ctor,          \* what the constructor did: legs priced and added, throw
    strategy,         \* the strategy object
    st_initial,       \* what its getters returned right after construction
    st_call,          \* the last member function called on it, and its result
    \* runCallChunk / runPutChunk
    ck_pc,            \* "idle", "running" or "returned"
    ck_args,          \* kind, T, sim_begin, sim_end
    ck_i, ck_t,       \* the loop variables i and t
    ck_paths,         \* for every finished path, the steps it took
    \* MarketDataProvider and its feed
    md_pc,            \* "idle", or "ready" once the provider is constructed
    feed_kind,        \* "PaperFeed" or "AlphaVantageFeed"
    feed_prices,      \* what the feed's getCurrentPrice answers, per symbol
    current_prices_cache_,
    md_stored,        \* per symbol, the price last handed to the provider
    md_call,          \* the last call on the provider, and its result
    \* main() of the command-line front end
    cli_pc,           \* "idle", "fetch", "report", "done" or "error"
    cli_symbol,       \* index in stock_symbols of the symbol in progress
    retry, success,   \* the retry loop's variables
    cli_attempts,     \* per symbol, the results of its updateCurrentPrice calls
    cli_reported,     \* the symbols whose table was printed
    \* PaperTradingSystem
    pt_pc,            \* "idle", or "open" once the ledger is constructed
    cash_balance,
    open_positions,
    pt_call           \* the last call on the ledger, its result, the state before

mc_vars == <<mc_pc, option_kind, num_simulations, progress_cb, n, n_workers,
             chunk_size, futures, start, done, sum_payoffs, idx, cb_log,
             touched, mc_return>>

iv_vars == <<iv_pc, market_price, spot_price, strike_price, risk_free_rate,
             time_to_expiry, option_type, volatility, iv_i, bis_a, bis_b, bis_fa,
             bis_fb, bis_i, iv_return, iv_trace>>

bs_vars == <<bs_pc, bs_args, call_price, put_price, call_greeks, put_greeks>>

st_vars == <<st_pc, st_request, st_ctor, strategy, st_initial, st_call>>

ck_vars == <<ck_pc, ck_args, ck_i, ck_t, ck_paths>>

md_vars == <<md_pc, feed_kind, feed_prices, current_prices_cache_, md_stored,
             md_call>>

cli_vars == <<cli_pc, cli_symbol, retry, success, cli_attempts, cli_reported>>

pt_vars == <<pt_pc, cash_balance, open_positions, pt_call>>

\* the machines added to the first four
ext_vars == <<ck_vars, md_vars, cli_vars, pt_vars>>

core_vars == <<mc_vars, iv_vars, bs_vars, st_vars>>

vars == <<core_vars, ext_vars>>

\* what the actions of one machine leave alone
ck_others == <<core_vars, md_vars, cli_vars, pt_vars>>
md_others == <<core_vars, ck_vars, cli_vars, pt_vars>>
cli_others == <<core_vars, ck_vars, pt_vars>>
pt_others == <<core_vars, ck_vars, md_vars, cli_vars>>

(***************************************************************************)
(* Real numbers. A double x is represented by the integer x * ONE (six     *)
(* decimals); products and quotients are computed by limbs of Base so that *)
(* no intermediate value leaves the 32-bit range.                          *)
(***************************************************************************)
Base == 1000
ONE == 1000000
\* A time in years t is represented by the integer t * YearParts, which
\* leaves room for expiries of thousands of years.
YearParts == 1000

Abs(x) == IF x < 0 THEN -x ELSE x
Sgn(x) == IF x > 0 THEN 1 ELSE IF x < 0 THEN -1 ELSE 0

\* x * y for x, y >= 0
MulNat(x, y) ==
    LET x2 == x \div ONE
        x1 == (x \div Base) % Base
        x0 == x % Base
        y2 == y \div ONE
        y1 == (y \div Base) % Base
        y0 == y % Base
        low == (x1 * y0 + x0 * y1) * Base + x0 * y0
    IN x2 * y2 * ONE + (x2 * y1 + x1 * y2) * Base
       + (x2 * y0 + x1 * y1 + x0 * y2) + low \div ONE

MulFix(x, y) == Sgn(x) * Sgn(y) * MulNat(Abs(x), Abs(y))

RECURSIVE DivDigits(_, _, _, _)
DivDigits(q, r, y, k) ==
    IF k = 0 THEN q
    ELSE DivDigits(q * 10 + (r * 10) \div y, (r * 10) % y, y, k - 1)

\* x / y for x >= 0, y > 0 (a large y is shortened by two digits, and x
\* with it, to keep the remainders in range)
DivNat(x, y) ==
    LET s == IF y >= 200 * ONE THEN 100 ELSE 1
        xs == x \div s
        ys == y \div s
    IN DivDigits(xs \div ys, xs % ys, ys, 6)

DivFix(x, y) == Sgn(x) * Sgn(y) * DivNat(Abs(x), Abs(y))

\* x / y cut to [-cap, cap], for y >= 0 (a zero y stands for a positive
\* real below the resolution)
DivSat(x, y, cap) ==
    IF x = 0 THEN 0
    ELSE IF y = 0 \/ Abs(x) \div y >= cap \div ONE THEN Sgn(x) * cap
    ELSE DivFix(x, y)

\* std::sqrt, by Heron's iteration
RECURSIVE SqrtIter(_, _, _)
SqrtIter(x, y, k) ==
    IF k = 0 THEN y
    ELSE LET y2 == (y + DivNat(x, y)) \div 2
         IN IF y2 = y THEN y ELSE SqrtIter(x, y2, k - 1)

SqrtFix(x) == IF x = 0 THEN 0 ELSE SqrtIter(x, IF x < ONE THEN ONE ELSE x, 40)

\* std::exp: x = k ln 2 + r, exp(r) by its Taylor series, then scaled by 2^k
RECURSIVE ExpSeries(_, _, _, _)
ExpSeries(r, term, sum, i) ==
    IF i > 12 THEN sum
    ELSE LET t == MulNat(term, r) \div i IN ExpSeries(r, t, sum + t, i + 1)

ExpFix(x) ==
    IF x < -20 * ONE THEN 0
    ELSE LET k == x \div 693147
             e == ExpSeries(x - k * 693147, ONE, ONE, 1)
         IN IF k >= 0 THEN e * 2^k ELSE e \div 2^(-k)

\* std::log: x = m 2^k with m near 1, ln m = 2 artanh((m - 1) / (m + 1))
RECURSIVE LnReduce(_, _)
LnReduce(m, k) ==
    IF m >= 1414214 THEN LnReduce(m \div 2, k + 1)
    ELSE IF m < 707107 THEN LnReduce(m * 2, k - 1)
    ELSE <<m, k>>

RECURSIVE LnSeries(_, _, _, _)
LnSeries(y2, term, sum, i) ==
    IF i > 7 THEN sum
    ELSE LnSeries(y2, MulFix(term, y2), sum + term \div (2 * i + 1), i + 1)

LnFix(x) ==
    LET mk == LnReduce(x, 0)
        y == DivFix(mk[1] - ONE, mk[1] + ONE)
        s == IF y >= 0 THEN LnSeries(MulFix(y, y), y, 0, 0)
             ELSE -LnSeries(MulFix(y, y), -y, 0, 0)
    IN 2 * s + mk[2] * 693147

\* std::erf (Abramowitz-Stegun 7.1.26, exact to the resolution)
ErfNat(z) ==
    IF z > 6 * ONE THEN ONE
    ELSE LET t == DivNat(ONE, ONE + MulNat(327591, z))
             poly == MulFix(t, 254830 + MulFix(t, -284497 + MulFix(t, 1421414
                        + MulFix(t, -1453152 + MulFix(t, 1061405)))))
         IN ONE - MulFix(poly, ExpFix(-MulNat(z, z)))

ErfFix(z) == IF z < 0 THEN -ErfNat(-z) ELSE ErfNat(z)

(***************************************************************************)
(* BlackScholes: the pricing kernel                                        *)
(***************************************************************************)
\* return 0.5 * (1.0 + std::erf(x / std::sqrt(2.0)));
standardNormalCDF(x) ==
    IF x > 8 * ONE THEN ONE
    ELSE IF x < -8 * ONE THEN 0
    ELSE (ONE + ErfFix(MulFix(x, 707107))) \div 2

\* return (1.0 / std::sqrt(2.0 * M_PI)) * std::exp(-0.5 * x * x);
standardNormalPDF(x) ==
    IF Abs(x) > 8 * ONE THEN 0
    ELSE MulFix(398942, ExpFix(-(MulNat(Abs(x), Abs(x)) \div 2)))

\* x < MIN_VOLATILITY and x < MIN_TIME_TO_EXPIRY (both 1e-10, below the
\* resolution): of the representable values exactly those <= 0 are below.
BelowMinVolatility(x) == x <= 0
BelowMinTimeToExpiry(x) == x <= 0

callIntrinsic(spot, strike) == Max(spot - strike, 0)
putIntrinsic(spot, strike) == Max(strike - spot, 0)

\* std::sqrt(time_to_expiry)
SqrtTime(T) ==
    IF T < 2 * ONE THEN SqrtFix(T * (ONE \div YearParts))
    ELSE 10 * SqrtFix(T * ((ONE \div YearParts) \div 100))

\* risk_free_rate * time_to_expiry
RateTime(rate, T) ==
    IF T < 2 * ONE THEN MulFix(rate, T * (ONE \div YearParts))
    ELSE MulFix(rate * (ONE \div YearParts), T)

\* volatility * std::sqrt(time_to_expiry)
SigmaSqrtT(vol, T) == MulFix(vol, SqrtTime(T))

\* d1 = [ln(S/K) + (r + sigma^2/2) T] / (sigma sqrt(T)), computed as
\* [ln(S/K) + r T] / (sigma sqrt(T)) + sigma sqrt(T) / 2 with the quotient cut
\* at +-1000, far beyond where CDF and PDF have reached 0 or 1.
D1(spot, strike, rate, vol, T) ==
    DivSat(LnFix(DivNat(spot, strike)) + RateTime(rate, T),
           SigmaSqrtT(vol, T), 1000 * ONE)
    + SigmaSqrtT(vol, T) \div 2

\* std::exp(-risk_free_rate * time_to_expiry)
Discount(rate, T) == ExpFix(-RateTime(rate, T))

\* A validation without the second throw (the negative time).
PriceThrowsOnContractOnly(spot, strike, T) == spot <= 0 \/ strike <= 0

\* A validation that still rejects an expired option, as
\* calculateImpliedVolatility does.
PriceThrowsOnExpired(spot, strike, T) ==
    spot <= 0 \/ strike <= 0 \/ BelowMinTimeToExpiry(T)

\* The two throws that open calculateCallPrice and calculatePutPrice.
PriceThrows(spot, strike, T) == spot <= 0 \/ strike <= 0 \/ T < 0

\* The two `if`s in the other order.
PriceRuleVolatilityFirst(vol, T) ==
    IF BelowMinVolatility(vol) THEN "zero_volatility"
    ELSE IF BelowMinTimeToExpiry(T) THEN "zero_time"
    ELSE "closed_form"

\* The rule a price is computed by: the three branches in the order of the
\* two `if`s that follow the throws.
PriceRule(vol, T) ==
    IF BelowMinTimeToExpiry(T) THEN "zero_time"
    ELSE IF BelowMinVolatility(vol) THEN "zero_volatility"
    ELSE "closed_form"

\* std::exp(x) is +infinity for x above ln(DBL_MAX) = 709.782712...
DoubleExpMax == 709782712
ExpOverflows(x) == x > DoubleExpMax

\* A double that is not finite (+infinity, or the NaN that 0 * infinity
\* gives); every finite value of the model is below it.
NotFinite == 2000 * ONE
IsFinite(x) == x < NotFinite

\* const double forward = spot_price * std::exp(risk_free_rate * time_to_expiry);
\* return std::exp(-risk_free_rate * time_to_expiry) * std::max(forward - strike_price, 0.0);
\* With spot > 0 an infinite exp() makes forward, the maximum and the
\* product infinite (or NaN once the discount factor has underflowed to 0).
ZeroVolatilityCall(spot, strike, rate, T) ==
    IF ExpOverflows(RateTime(rate, T)) THEN NotFinite
    ELSE LET forward == MulFix(spot, ExpFix(RateTime(rate, T)))
         IN MulFix(Discount(rate, T), Max(forward - strike, 0))

\* return std::exp(-risk_free_rate * time_to_expiry) * std::max(strike_price - forward, 0.0);
\* With an infinite forward the maximum is 0 and so is the product.
ZeroVolatilityPut(spot, strike, rate, T) ==
    IF ExpOverflows(RateTime(rate, T)) THEN 0
    ELSE LET forward == MulFix(spot, ExpFix(RateTime(rate, T)))
         IN MulFix(Discount(rate, T), Max(strike - forward, 0))

calculateCallPrice(spot, strike, rate, vol, T) ==
    CASE PriceRule(vol, T) = "zero_time" -> callIntrinsic(spot, strike)
      [] PriceRule(vol, T) = "zero_volatility" ->
            ZeroVolatilityCall(spot, strike, rate, T)
      [] OTHER ->
            LET d1 == D1(spot, strike, rate, vol, T)
                d2 == d1 - SigmaSqrtT(vol, T)
            IN MulFix(spot, standardNormalCDF(d1))
               - MulFix(MulFix(strike, Discount(rate, T)), standardNormalCDF(d2))

calculatePutPrice(spot, strike, rate, vol, T) ==
    CASE PriceRule(vol, T) = "zero_time" -> putIntrinsic(spot, strike)
      [] PriceRule(vol, T) = "zero_volatility" ->
            ZeroVolatilityPut(spot, strike, rate, T)
      [] OTHER ->
            LET d1 == D1(spot, strike, rate, vol, T)
                d2 == d1 - SigmaSqrtT(vol, T)
            IN MulFix(MulFix(strike, Discount(rate, T)), standardNormalCDF(-d2))
               - MulFix(spot, standardNormalCDF(-d1))

\* calculateCallPrice or calculatePutPrice, by option_type
ModelPrice(type, spot, strike, rate, vol, T) ==
    IF type = "CALL" THEN calculateCallPrice(spot, strike, rate, vol, T)
    ELSE calculatePutPrice(spot, strike, rate, vol, T)

(***************************************************************************)
(* BlackScholesGreeks                                                      *)
(***************************************************************************)
\* x / k for an integer k > 0, rounded towards zero
DivInt(x, k) == Sgn(x) * (Abs(x) \div k)

\* struct OptionGreeks: every field is initialised to 0.0
ZeroGreeks == [delta |-> 0, gamma |-> 0, theta |-> 0, vega |-> 0, rho |-> 0]

\* A guard that has forgotten the volatility.
DegenerateContractOnly(spot, strike, vol, T) ==
    spot <= 0 \/ strike <= 0 \/ BelowMinTimeToExpiry(T)

\* if (spot_price <= 0 || strike_price <= 0 ||
\*     time_to_expiry < MIN_TIME_TO_EXPIRY || volatility < MIN_VOLATILITY)
DegenerateGreeksInput(spot, strike, vol, T) ==
    spot <= 0 \/ strike <= 0 \/ BelowMinTimeToExpiry(T) \/ BelowMinVolatility(vol)

\* -spot_price * standardNormalPDF(d1) * volatility / (2 * std::sqrt(time_to_expiry))
ThetaDecay(spot, d1, vol, T) ==
    -DivFix(MulFix(MulFix(spot, standardNormalPDF(d1)), vol), 2 * SqrtTime(T))

\* strike_price * std::exp(-risk_free_rate * time_to_expiry) * CDF(x)
DiscountedStrike(strike, rate, T, x) ==
    MulFix(MulFix(strike, Discount(rate, T)), standardNormalCDF(x))

\* x * time_to_expiry / 100 (for the long expiries the division comes
\* first, the product being beyond the range)
TimesTimePercent(x, T) ==
    IF T < 2 * ONE THEN DivInt(RateTime(x, T), 100)
    ELSE RateTime(DivInt(x, 100), T)

calculateCallGreeks(spot, strike, rate, vol, T) ==
    IF DegenerateGreeksInput(spot, strike, vol, T) THEN ZeroGreeks
    ELSE LET sigma_sqrt_T == SigmaSqrtT(vol, T)
             d1 == D1(spot, strike, rate, vol, T)
             d2 == d1 - sigma_sqrt_T
         IN [delta |-> standardNormalCDF(d1),
             gamma |-> DivSat(standardNormalPDF(d1), MulFix(spot, sigma_sqrt_T),
                              1000 * ONE),
             theta |-> DivInt(ThetaDecay(spot, d1, vol, T)
                              - MulFix(rate, DiscountedStrike(strike, rate, T, d2)),
                              365),
             vega |-> DivInt(MulFix(MulFix(spot, standardNormalPDF(d1)),
                                    SqrtTime(T)), 100),
             rho |-> TimesTimePercent(DiscountedStrike(strike, rate, T, d2), T)]

calculatePutGreeks(spot, strike, rate, vol, T) ==
    IF DegenerateGreeksInput(spot, strike, vol, T) THEN ZeroGreeks
    ELSE LET sigma_sqrt_T == SigmaSqrtT(vol, T)
             d1 == D1(spot, strike, rate, vol, T)
             d2 == d1 - sigma_sqrt_T
         IN [delta |-> standardNormalCDF(d1) - ONE,
             gamma |-> DivSat(standardNormalPDF(d1), MulFix(spot, sigma_sqrt_T),
                              1000 * ONE),
             theta |-> DivInt(ThetaDecay(spot, d1, vol, T)
                              + MulFix(rate, DiscountedStrike(strike, rate, T, -d2)),
                              365),
             vega |-> DivInt(MulFix(MulFix(spot, standardNormalPDF(d1)),
                                    SqrtTime(T)), 100),
             rho |-> -TimesTimePercent(DiscountedStrike(strike, rate, T, -d2), T)]

(***************************************************************************)
(* A caller of the pricing kernel and of the Greeks: it fixes the five     *)
(* arguments and calls the four functions, each at most once, in any       *)
(* order.                                                                  *)
(***************************************************************************)
BSSpotInputs == {-ONE, 0, ONE, 2 * ONE}
BSStrikeInputs == {-ONE, 0, ONE, (3 * ONE) \div 2}
BSRateInputs == {0, ONE \div 20}
BSVolatilityInputs == {-(ONE \div 10), 0, ONE \div 5, ONE}
\* a negative time, 0, a quarter, a year, and 14400 years, where
\* exp(0.05 * T) is beyond the doubles
BSTimeInputs == {-1, 0, YearParts \div 4, YearParts, 14400 * YearParts}

NoArgs == [spot |-> 0, strike |-> 0, rate |-> 0, vol |-> 0, T |-> 0]
NoPrice == [kind |-> "none", value |-> 0, rule |-> "none"]
NoGreeks == [kind |-> "none", greeks |-> ZeroGreeks]

BSIdle ==
    /\ bs_pc = "idle"
    /\ bs_args = NoArgs
    /\ call_price = NoPrice
    /\ put_price = NoPrice
    /\ call_greeks = NoGreeks
    /\ put_greeks = NoGreeks

\* The caller reads its inputs.
OptionInputs(spot, strike, rate, vol, T) ==
    /\ bs_pc = "idle"
    /\ bs_pc' = "called"
    /\ bs_args' = [spot |-> spot, strike |-> strike, rate |-> rate, vol |-> vol,
                   T |-> T]
    /\ UNCHANGED <<call_price, put_price, call_greeks, put_greeks>>
    /\ UNCHANGED <<mc_vars, iv_vars, st_vars, ext_vars>>

\* BlackScholes::calculateCallPrice, from its throws to its return
CallPrice ==
    /\ bs_pc = "called"
    /\ call_price.kind = "none"
    /\ call_price' =
            IF PriceThrows(bs_args.spot, bs_args.strike, bs_args.T)
            THEN [kind |-> "invalid_argument", value |-> 0, rule |-> "none"]
            ELSE [kind |-> "value",
                  value |-> calculateCallPrice(bs_args.spot, bs_args.strike,
                                bs_args.rate, bs_args.vol, bs_args.T),
                  rule |-> PriceRule(bs_args.vol, bs_args.T)]
    /\ UNCHANGED <<bs_pc, bs_args, put_price, call_greeks, put_greeks>>
    /\ UNCHANGED <<mc_vars, iv_vars, st_vars, ext_vars>>

\* BlackScholes::calculatePutPrice, from its throws to its return
PutPrice ==
    /\ bs_pc = "called"
    /\ put_price.kind = "none"
    /\ put_price' =
            IF PriceThrows(bs_args.spot, bs_args.strike, bs_args.T)
            THEN [kind |-> "invalid_argument", value |-> 0, rule |-> "none"]
            ELSE [kind |-> "value",
                  value |-> calculatePutPrice(bs_args.spot, bs_args.strike,
                                bs_args.rate, bs_args.vol, bs_args.T),
                  rule |-> PriceRule(bs_args.vol, bs_args.T)]
    /\ UNCHANGED <<bs_pc, bs_args, call_price, call_greeks, put_greeks>>
    /\ UNCHANGED <<mc_vars, iv_vars, st_vars, ext_vars>>

\* BlackScholesGreeks::calculateCallGreeks
CallGreeks ==
    /\ bs_pc = "called"
    /\ call_greeks.kind = "none"
    /\ call_greeks' =
            [kind |-> "value",
             greeks |-> calculateCallGreeks(bs_args.spot, bs_args.strike,
                            bs_args.rate, bs_args.vol, bs_args.T)]
    /\ UNCHANGED <<bs_pc, bs_args, call_price, put_price, put_greeks>>
    /\ UNCHANGED <<mc_vars, iv_vars, st_vars, ext_vars>>

\* BlackScholesGreeks::calculatePutGreeks
PutGreeks ==
    /\ bs_pc = "called"
    /\ put_greeks.kind = "none"
    /\ put_greeks' =
            [kind |-> "value",
             greeks |-> calculatePutGreeks(bs_args.spot, bs_args.strike,
                            bs_args.rate, bs_args.vol, bs_args.T)]
    /\ UNCHANGED <<bs_pc, bs_args, call_price, put_price, call_greeks>>
    /\ UNCHANGED <<mc_vars, iv_vars, st_vars, ext_vars>>

BSNext ==
    \/ \E spot \in BSSpotInputs, strike \in BSStrikeInputs, rate \in BSRateInputs,
          vol \in BSVolatilityInputs, T \in BSTimeInputs :
            OptionInputs(spot, strike, rate, vol, T)
    \/ CallPrice
    \/ PutPrice
    \/ CallGreeks
    \/ PutGreeks

(***************************************************************************)
(* OptionStrategy, its five variants and OptionStrategyFactory             *)
(***************************************************************************)
\* the rate and the volatility that calculateValue prices the legs with
ValueRate == 20000
ValueVolatility == 300000
\* the factory's strikes: current_price * 0.95 and current_price * 1.05
LowStrikeFactor == 950000
HighStrikeFactor == 1050000

\* At most MaxLegs options are held by a strategy (addOption beyond that is
\* not explored).
MaxLegs == 3

\* Option(symbol, type, strike, expiry) followed by setCurrentPrice(price)
Leg(type, strike, expiry, price) ==
    [type |-> type, strike |-> strike, expiry |-> expiry, current_price |-> price]

\* OptionStrategy(symbol): no options, stock_position = 0, entry_price = 0.0
NoStrategy ==
    [variant |-> "none", options |-> <<>>, stock_position |-> 0, entry_price |-> 0]

\* A constructor that threw: by names the throw, priced counts the calls of
\* the pricing kernel it made, added the options it had added.
CtorThrew(by, priced, added) ==
    [thrown |-> TRUE, thrown_by |-> by, priced |-> priced, added |-> added,
     object |-> NoStrategy]

CtorBuilt(object, priced) ==
    [thrown |-> FALSE, thrown_by |-> "none", priced |-> priced,
     added |-> Len(object.options), object |-> object]

CoveredCallStrategy(current_price, strike, vol, rate, T) ==
    IF PriceThrows(current_price, strike, T) THEN CtorThrew("pricing", 1, 0)
    ELSE LET call_premium == calculateCallPrice(current_price, strike, rate, vol, T)
         IN CtorBuilt(
                [variant |-> "CoveredCallStrategy",
                 options |-> <<Leg("CALL", strike, T, call_premium)>>,
                 stock_position |-> 100,
                 entry_price |-> current_price * 100 - call_premium * 100,
                 entry_stock_price |-> current_price,
                 call_premium |-> call_premium], 1)

ProtectivePutStrategy(current_price, strike, vol, rate, T) ==
    IF PriceThrows(current_price, strike, T) THEN CtorThrew("pricing", 1, 0)
    ELSE LET put_premium == calculatePutPrice(current_price, strike, rate, vol, T)
         IN CtorBuilt(
                [variant |-> "ProtectivePutStrategy",
                 options |-> <<Leg("PUT", strike, T, put_premium)>>,
                 stock_position |-> 100,
                 entry_price |-> current_price * 100 + put_premium * 100,
                 entry_stock_price |-> current_price,
                 put_premium |-> put_premium], 1)

\* A check that lets equal strikes through.
LongCallStrikeAbove(long_strike, short_strike) == long_strike > short_strike

\* if (long_strike >= short_strike) throw std::invalid_argument(...)
InvalidBullCallStrikes(long_strike, short_strike) == long_strike >= short_strike

BullCallSpreadStrategy(current_price, long_strike, short_strike, vol, rate, T) ==
    IF InvalidBullCallStrikes(long_strike, short_strike)
    THEN CtorThrew("strike_order", 0, 0)
    ELSE IF PriceThrows(current_price, long_strike, T) THEN CtorThrew("pricing", 1, 0)
    ELSE IF PriceThrows(current_price, short_strike, T) THEN CtorThrew("pricing", 2, 1)
    ELSE LET long_call_premium == calculateCallPrice(current_price, long_strike,
                                                     rate, vol, T)
             short_call_premium == calculateCallPrice(current_price, short_strike,
                                                      rate, vol, T)
         IN CtorBuilt(
                [variant |-> "BullCallSpreadStrategy",
                 options |-> <<Leg("CALL", long_strike, T, long_call_premium),
                               Leg("CALL", short_strike, T, short_call_premium)>>,
                 stock_position |-> 0,
                 entry_price |-> (long_call_premium - short_call_premium) * 100,
                 long_call_strike |-> long_strike,
                 short_call_strike |-> short_strike,
                 long_call_premium |-> long_call_premium,
                 short_call_premium |-> short_call_premium], 2)

\* if (long_strike <= short_strike) throw std::invalid_argument(...)
InvalidBearPutStrikes(long_strike, short_strike) == long_strike <= short_strike

BearPutSpreadStrategy(current_price, long_strike, short_strike, vol, rate, T) ==
    IF InvalidBearPutStrikes(long_strike, short_strike)
    THEN CtorThrew("strike_order", 0, 0)
    ELSE IF PriceThrows(current_price, long_strike, T) THEN CtorThrew("pricing", 1, 0)
    ELSE IF PriceThrows(current_price, short_strike, T) THEN CtorThrew("pricing", 2, 1)
    ELSE LET long_put_premium == calculatePutPrice(current_price, long_strike,
                                                   rate, vol, T)
             short_put_premium == calculatePutPrice(current_price, short_strike,
                                                    rate, vol, T)
         IN CtorBuilt(
                [variant |-> "BearPutSpreadStrategy",
                 options |-> <<Leg("PUT", long_strike, T, long_put_premium),
                               Leg("PUT", short_strike, T, short_put_premium)>>,
                 stock_position |-> 0,
                 entry_price |-> (long_put_premium - short_put_premium) * 100,
                 long_put_strike |-> long_strike,
                 short_put_strike |-> short_strike,
                 long_put_premium |-> long_put_premium,
                 short_put_premium |-> short_put_premium], 2)

StraddleStrategy(current_price, strike, vol, rate, T) ==
    IF PriceThrows(current_price, strike, T) THEN CtorThrew("pricing", 1, 0)
    ELSE LET call_premium == calculateCallPrice(current_price, strike, rate, vol, T)
             put_premium == calculatePutPrice(current_price, strike, rate, vol, T)
         IN CtorBuilt(
                [variant |-> "StraddleStrategy",
                 options |-> <<Leg("CALL", strike, T, call_premium),
                               Leg("PUT", strike, T, put_premium)>>,
                 stock_position |-> 0,
                 entry_price |-> (call_premium + put_premium) * 100,
                 strike_price |-> strike,
                 call_premium |-> call_premium,
                 put_premium |-> put_premium], 2)

\* enum StrategyType
StrategyTypes ==
    {"COVERED_CALL", "PROTECTIVE_PUT", "BULL_CALL_SPREAD", "BEAR_PUT_SPREAD",
     "STRADDLE", "STRANGLE", "IRON_CONDOR", "BUTTERFLY"}

\* A factory whose bear put spread takes the strikes in the order of the
\* bull call spread.
createStrategySameOrder(type, current_price, vol, rate, T) ==
    CASE type = "COVERED_CALL" ->
            CoveredCallStrategy(current_price,
                MulFix(current_price, HighStrikeFactor), vol, rate, T)
      [] type = "PROTECTIVE_PUT" ->
            ProtectivePutStrategy(current_price,
                MulFix(current_price, LowStrikeFactor), vol, rate, T)
      [] type = "BULL_CALL_SPREAD" ->
            BullCallSpreadStrategy(current_price,
                MulFix(current_price, LowStrikeFactor),
                MulFix(current_price, HighStrikeFactor), vol, rate, T)
      [] type = "BEAR_PUT_SPREAD" ->
            BearPutSpreadStrategy(current_price,
                MulFix(current_price, LowStrikeFactor),
                MulFix(current_price, HighStrikeFactor), vol, rate, T)
      [] type = "STRADDLE" ->
            StraddleStrategy(current_price, current_price, vol, rate, T)
      [] OTHER -> CtorThrew("not_implemented", 0, 0)

\* OptionStrategyFactory::createStrategy: the switch
createStrategy(type, current_price, vol, rate, T) ==
    CASE type = "COVERED_CALL" ->
            CoveredCallStrategy(current_price,
                MulFix(current_price, HighStrikeFactor), vol, rate, T)
      [] type = "PROTECTIVE_PUT" ->
            ProtectivePutStrategy(current_price,
                MulFix(current_price, LowStrikeFactor), vol, rate, T)
      [] type = "BULL_CALL_SPREAD" ->
            BullCallSpreadStrategy(current_price,
                MulFix(current_price, LowStrikeFactor),
                MulFix(current_price, HighStrikeFactor), vol, rate, T)
      [] type = "BEAR_PUT_SPREAD" ->
            BearPutSpreadStrategy(current_price,
                MulFix(current_price, HighStrikeFactor),
                MulFix(current_price, LowStrikeFactor), vol, rate, T)
      [] type = "STRADDLE" ->
            StraddleStrategy(current_price, current_price, vol, rate, T)
      [] OTHER -> CtorThrew("not_implemented", 0, 0)

\* What a member function returned, or that it threw invalid_argument.
Returned(value) == [kind |-> "value", value |-> value]
Raised == [kind |-> "invalid_argument", value |-> 0]

\* for (const auto& option : options) if (option.getType() == type)
\*     ... calculateCallPrice / calculatePutPrice(underlying_price,
\*             option.getStrikePrice(), 0.02, 0.3, time_to_expiry) * 100
RECURSIVE LegValues(_, _, _, _, _)
LegValues(options, type, underlying_price, T, k) ==
    IF k = 0 THEN 0
    ELSE LegValues(options, type, underlying_price, T, k - 1)
         + (IF options[k].type # type THEN 0
            ELSE 100 * ModelPrice(type, underlying_price, options[k].strike,
                                  ValueRate, ValueVolatility, T))

LegThrows(options, type, underlying_price, T) ==
    \E k \in 1..Len(options) :
        options[k].type = type /\ PriceThrows(underlying_price, options[k].strike, T)

\* calculateValue of the five classes
calculateValue(o, underlying_price, T) ==
    CASE o.variant = "CoveredCallStrategy" ->
            IF LegThrows(o.options, "CALL", underlying_price, T) THEN Raised
            ELSE Returned(o.stock_position * underlying_price
                          - LegValues(o.options, "CALL", underlying_price, T,
                                      Len(o.options)))
      [] o.variant = "ProtectivePutStrategy" ->
            IF LegThrows(o.options, "PUT", underlying_price, T) THEN Raised
            ELSE Returned(o.stock_position * underlying_price
                          + LegValues(o.options, "PUT", underlying_price, T,
                                      Len(o.options)))
      [] o.variant = "BullCallSpreadStrategy" ->
            IF \/ PriceThrows(underlying_price, o.long_call_strike, T)
               \/ PriceThrows(underlying_price, o.short_call_strike, T)
            THEN Raised
            ELSE Returned((calculateCallPrice(underlying_price, o.long_call_strike,
                                              ValueRate, ValueVolatility, T)
                           - calculateCallPrice(underlying_price, o.short_call_strike,
                                                ValueRate, ValueVolatility, T)) * 100)
      [] o.variant = "BearPutSpreadStrategy" ->
            IF \/ PriceThrows(underlying_price, o.long_put_strike, T)
               \/ PriceThrows(underlying_price, o.short_put_strike, T)
            THEN Raised
            ELSE Returned((calculatePutPrice(underlying_price, o.long_put_strike,
                                             ValueRate, ValueVolatility, T)
                           - calculatePutPrice(underlying_price, o.short_put_strike,
                                               ValueRate, ValueVolatility, T)) * 100)
      [] o.variant = "StraddleStrategy" ->
            IF PriceThrows(underlying_price, o.strike_price, T) THEN Raised
            ELSE Returned((calculateCallPrice(underlying_price, o.strike_price,
                                              ValueRate, ValueVolatility, T)
                           + calculatePutPrice(underlying_price, o.strike_price,
                                               ValueRate, ValueVolatility, T)) * 100)

\* the deltas of the options of one type, each times 100
RECURSIVE LegDeltas(_, _, _, _, _, _, _)
LegDeltas(options, type, underlying_price, T, rate, vol, k) ==
    IF k = 0 THEN 0
    ELSE LegDeltas(options, type, underlying_price, T, rate, vol, k - 1)
         + (IF options[k].type # type THEN 0
            ELSE IF type = "CALL"
            THEN 100 * calculateCallGreeks(underlying_price, options[k].strike,
                                           rate, vol, T).delta
            ELSE 100 * calculatePutGreeks(underlying_price, options[k].strike,
                                          rate, vol, T).delta)

\* calculateDelta of the five classes
calculateDelta(o, underlying_price, T, rate, vol) ==
    CASE o.variant = "CoveredCallStrategy" ->
            Returned(o.stock_position * ONE
                     - LegDeltas(o.options, "CALL", underlying_price, T, rate, vol,
                                 Len(o.options)))
      [] o.variant = "ProtectivePutStrategy" ->
            Returned(o.stock_position * ONE
                     + LegDeltas(o.options, "PUT", underlying_price, T, rate, vol,
                                 Len(o.options)))
      [] o.variant = "BullCallSpreadStrategy" ->
            Returned((calculateCallGreeks(underlying_price, o.long_call_strike,
                                          rate, vol, T).delta
                      - calculateCallGreeks(underlying_price, o.short_call_strike,
                                            rate, vol, T).delta) * 100)
      [] o.variant = "BearPutSpreadStrategy" ->
            Returned((calculatePutGreeks(underlying_price, o.long_put_strike,
                                         rate, vol, T).delta
                      - calculatePutGreeks(underlying_price, o.short_put_strike,
                                           rate, vol, T).delta) * 100)
      [] o.variant = "StraddleStrategy" ->
            Returned((calculateCallGreeks(underlying_price, o.strike_price,
                                          rate, vol, T).delta
                      + calculatePutGreeks(underlying_price, o.strike_price,
                                           rate, vol, T).delta) * 100)

\* for (option : options) if (option.getType() == type) { ...; break; }
FirstLeg(options, type) ==
    IF \E k \in 1..Len(options) : options[k].type = type
    THEN LET k == CHOOSE i \in 1..Len(options) :
                    /\ options[i].type = type
                    /\ \A j \in 1..(i - 1) : options[j].type # type
         IN <<options[k]>>
    ELSE <<>>

\* A maximum profit that leaves out the debit paid.
calculateMaxProfitGross(o) ==
    Returned(IF o.variant = "BullCallSpreadStrategy"
             THEN (o.short_call_strike - o.long_call_strike) * 100
             ELSE IF o.variant = "BearPutSpreadStrategy"
             THEN (o.long_put_strike - o.short_put_strike) * 100
             ELSE 0)

\* calculateMaxProfit of the five classes
calculateMaxProfit(o) ==
    CASE o.variant = "CoveredCallStrategy" ->
            LET first == FirstLeg(o.options, "CALL")
                max_profit_per_share ==
                    IF first = <<>> THEN 0
                    ELSE first[1].strike - o.entry_stock_price + first[1].current_price
            IN Returned(max_profit_per_share * Abs(o.stock_position))
      [] o.variant = "ProtectivePutStrategy" ->
            Returned((o.entry_stock_price * 3 - o.entry_stock_price) * o.stock_position
                     - o.put_premium * 100)
      [] o.variant = "BullCallSpreadStrategy" ->
            Returned((o.short_call_strike - o.long_call_strike) * 100 - o.entry_price)
      [] o.variant = "BearPutSpreadStrategy" ->
            Returned((o.long_put_strike - o.short_put_strike) * 100 - o.entry_price)
      [] o.variant = "StraddleStrategy" ->
            Returned(Max(o.strike_price * 2 - o.strike_price, o.strike_price \div 2) * 100
                     - o.entry_price)

\* calculateMaxLoss of the five classes
calculateMaxLoss(o) ==
    CASE o.variant = "ProtectivePutStrategy" ->
            LET first == FirstLeg(o.options, "PUT")
                max_loss_per_share ==
                    IF first = <<>> THEN 0
                    ELSE o.entry_stock_price - first[1].strike + first[1].current_price
            IN Returned(max_loss_per_share * Abs(o.stock_position))
      [] OTHER -> Returned(o.entry_price)

\* calculateBreakevens of the five classes
calculateBreakevens(o) ==
    CASE o.variant = "CoveredCallStrategy" ->
            Returned(<<o.entry_stock_price - o.call_premium>>)
      [] o.variant = "ProtectivePutStrategy" ->
            Returned(<<o.entry_stock_price + o.put_premium>>)
      [] o.variant = "BullCallSpreadStrategy" ->
            Returned(<<o.long_call_strike + DivInt(o.entry_price, 100)>>)
      [] o.variant = "BearPutSpreadStrategy" ->
            Returned(<<o.long_put_strike - DivInt(o.entry_price, 100)>>)
      [] o.variant = "StraddleStrategy" ->
            Returned(<<o.strike_price - DivInt(o.entry_price, 100),
                       o.strike_price + DivInt(o.entry_price, 100)>>)

\* calculateProfitLoss(price): value(price, 0) - entryPrice
calculateProfitLoss(o, price) ==
    IF calculateValue(o, price, 0).kind = "invalid_argument" THEN Raised
    ELSE Returned(calculateValue(o, price, 0).value - o.entry_price)

\* getOptions(), getStockPosition(), getEntryPrice()
Getters(o) ==
    [options |-> o.options, stock_position |-> o.stock_position,
     entry_price |-> o.entry_price]

STPriceInputs == {0, ONE}
STVolatilityInputs == {3 * (ONE \div 10), 2 * ONE}
STRateInputs == {ONE \div 50}
\* expiry - now: in the past, in a quarter, in a year
STExpiryInputs == {-1, YearParts \div 4, YearParts}
STStrikeInputs == {LowStrikeFactor, ONE, HighStrikeFactor}
STUnderlyingInputs == {0, ONE}
\* prices at expiry below and above every strike
STExpiryPrices == {ONE \div 2, 2 * ONE}
STValueTimes == {0, YearParts \div 4}
STAddedOptions == {Leg("CALL", ONE, YearParts, 0), Leg("PUT", ONE, YearParts, 0)}
STPositions == {0, 100}
STEntryPrices == {0}

NoRequest ==
    [via |-> "none", type |-> "none", current_price |-> 0, long_strike |-> 0,
     short_strike |-> 0, vol |-> 0, rate |-> 0, T |-> 0]
NoCtor == [thrown_by |-> "none", priced |-> 0, added |-> 0]
NoCall == [op |-> "none", args |-> <<>>, result |-> Returned(0)]

STIdle ==
    /\ st_pc = "idle"
    /\ st_request = NoRequest
    /\ st_ctor = NoCtor
    /\ strategy = NoStrategy
    /\ st_initial = Getters(NoStrategy)
    /\ st_call = NoCall

\* The outcome of a factory or constructor call: the object, or the throw.
Construct(request, outcome) ==
    /\ st_pc = "idle"
    /\ st_pc' = IF outcome.thrown THEN "threw" ELSE "constructed"
    /\ st_request' = request
    /\ st_ctor' = [thrown_by |-> outcome.thrown_by, priced |-> outcome.priced,
                   added |-> outcome.added]
    /\ strategy' = outcome.object
    /\ st_initial' = Getters(outcome.object)
    /\ st_call' = NoCall
    /\ UNCHANGED <<mc_vars, iv_vars, bs_vars, ext_vars>>

\* OptionStrategyFactory::createStrategy(type, symbol, current_price,
\*                                       volatility, risk_free_rate, expiry)
CreateStrategy(type, current_price, vol, rate, T) ==
    Construct([via |-> "createStrategy", type |-> type,
               current_price |-> current_price, long_strike |-> 0,
               short_strike |-> 0, vol |-> vol, rate |-> rate, T |-> T],
              createStrategy(type, current_price, vol, rate, T))

\* BullCallSpreadStrategy(symbol, current_price, long_strike, short_strike,
\*                        volatility, risk_free_rate, expiry)
NewBullCallSpread(current_price, long_strike, short_strike, vol, rate, T) ==
    Construct([via |-> "BullCallSpreadStrategy", type |-> "BULL_CALL_SPREAD",
               current_price |-> current_price, long_strike |-> long_strike,
               short_strike |-> short_strike, vol |-> vol, rate |-> rate, T |-> T],
              BullCallSpreadStrategy(current_price, long_strike, short_strike,
                                     vol, rate, T))

\* BearPutSpreadStrategy(symbol, current_price, long_strike, short_strike,
\*                       volatility, risk_free_rate, expiry)
NewBearPutSpread(current_price, long_strike, short_strike, vol, rate, T) ==
    Construct([via |-> "BearPutSpreadStrategy", type |-> "BEAR_PUT_SPREAD",
               current_price |-> current_price, long_strike |-> long_strike,
               short_strike |-> short_strike, vol |-> vol, rate |-> rate, T |-> T],
              BearPutSpreadStrategy(current_price, long_strike, short_strike,
                                    vol, rate, T))

\* A const member function is called on the strategy.
ConstCall(op, args, result) ==
    /\ st_pc = "constructed"
    /\ st_call' = [op |-> op, args |-> args, result |-> result]
    /\ UNCHANGED <<st_pc, st_request, st_ctor, strategy, st_initial>>
    /\ UNCHANGED <<mc_vars, iv_vars, bs_vars, ext_vars>>

\* A non-const member function is called on the strategy.
MutatingCall(op, args, object) ==
    /\ st_pc = "constructed"
    /\ strategy' = object
    /\ st_call' = [op |-> op, args |-> args, result |-> Returned(0)]
    /\ UNCHANGED <<st_pc, st_request, st_ctor, st_initial>>
    /\ UNCHANGED <<mc_vars, iv_vars, bs_vars, ext_vars>>

GetOptions == ConstCall("getOptions", <<>>, Returned(strategy.options))
GetStockPosition ==
    ConstCall("getStockPosition", <<>>, Returned(strategy.stock_position))
GetEntryPrice == ConstCall("getEntryPrice", <<>>, Returned(strategy.entry_price))

\* void addOption(const Option& option) { options.push_back(option); }
AddOption(option) ==
    /\ Len(strategy.options) < MaxLegs
    /\ MutatingCall("addOption", <<option>>,
                    [strategy EXCEPT !.options = Append(@, option)])

\* void setStockPosition(int position) { stock_position = position; }
SetStockPosition(position) ==
    MutatingCall("setStockPosition", <<position>>,
                 [strategy EXCEPT !.stock_position = position])

\* void setEntryPrice(double price) { entry_price = price; }
SetEntryPrice(price) ==
    MutatingCall("setEntryPrice", <<price>>, [strategy EXCEPT !.entry_price = price])

CalculateValue(underlying_price, T) ==
    ConstCall("calculateValue", <<underlying_price, T>>,
              calculateValue(strategy, underlying_price, T))

CalculateDelta(underlying_price, T, rate, vol) ==
    ConstCall("calculateDelta", <<underlying_price, T, rate, vol>>,
              calculateDelta(strategy, underlying_price, T, rate, vol))

CalculateMaxProfit ==
    ConstCall("calculateMaxProfit", <<>>, calculateMaxProfit(strategy))

CalculateMaxLoss == ConstCall("calculateMaxLoss", <<>>, calculateMaxLoss(strategy))

CalculateBreakevens ==
    ConstCall("calculateBreakevens", <<>>, calculateBreakevens(strategy))

CalculateProfitLoss(price) ==
    ConstCall("calculateProfitLoss", <<price>>, calculateProfitLoss(strategy, price))

\* The prices the profit/loss is asked at: the inputs and the breakevens.
ProfitLossPrices ==
    STUnderlyingInputs
    \cup (IF st_pc = "constructed"
          THEN {calculateBreakevens(strategy).value[i] :
                    i \in 1..Len(calculateBreakevens(strategy).value)}
          ELSE {})

STNext ==
    \/ \E type \in StrategyTypes, current_price \in STPriceInputs,
          vol \in STVolatilityInputs, rate \in STRateInputs, T \in STExpiryInputs :
            CreateStrategy(type, current_price, vol, rate, T)
    \/ \E current_price \in STPriceInputs, long_strike \in STStrikeInputs,
          short_strike \in STStrikeInputs, vol \in STVolatilityInputs,
          rate \in STRateInputs, T \in STExpiryInputs :
            \/ NewBullCallSpread(current_price, long_strike, short_strike, vol, rate, T)
            \/ NewBearPutSpread(current_price, long_strike, short_strike, vol, rate, T)
    \/ GetOptions
    \/ GetStockPosition
    \/ GetEntryPrice
    \/ \E option \in STAddedOptions : AddOption(option)
    \/ \E position \in STPositions : SetStockPosition(position)
    \/ \E price \in STEntryPrices : SetEntryPrice(price)
    \/ \E underlying_price \in STUnderlyingInputs, T \in STValueTimes :
            CalculateValue(underlying_price, T)
    \/ \E underlying_price \in STExpiryPrices : CalculateValue(underlying_price, 0)
    \/ \E underlying_price \in STUnderlyingInputs, T \in STValueTimes :
            CalculateDelta(underlying_price, T, ValueRate, ValueVolatility)
    \/ CalculateMaxProfit
    \/ CalculateMaxLoss
    \/ CalculateBreakevens
    \/ \E price \in ProfitLossPrices : CalculateProfitLoss(price)

(***************************************************************************)
(* MonteCarloOptionPricer                                                  *)
(***************************************************************************)
NumSimulationsInputs ==
    {num \in -1..MaxSims :
        \/ num <= 1
        \/ num % MIN_CHUNK \in {0, 1, MIN_CHUNK - 1}
        \/ num = MaxSims}

\* The most futures a call creates.
MaxFutures == MaxSims \div MIN_CHUNK + 1

HardwareConcurrencyValues == 0..MaxWorkers

\* A clamp that lets a count of 0 through.
ClampSimulationsAtZero(num) == Max(0, num)

\* int n = std::max(1, num_simulations);
ClampSimulations(num) == Max(1, num)

\* unsigned n_workers = max(1, hardware_concurrency())
WorkerCount(hc) == Max(1, hc)

\* int chunk_size = std::max(MIN_CHUNK, static_cast<int>(n / n_workers));
ChunkSize(nn, workers) == Max(MIN_CHUNK, nn \div workers)

\* A dispatch loop that does not cut the last chunk at n.
ChunkEndUnclamped(s, cs, nn) == s + cs

\* int end = std::min(start + chunk_size, n);
ChunkEnd(s, cs, nn) == Min(s + cs, nn)

\* A progress count that is not cut at n.
DoneAfterUnclamped(i, cs, nn) == (i + 1) * cs

\* done = std::min(static_cast<int>((i + 1) * chunk_size), n);   (i from 0)
DoneAfter(i, cs, nn) == Min((i + 1) * cs, nn)

\* A retrieval loop that takes whichever result is ready first.
FirstReadyFuture(i, fs) ==
    IF \E k \in 1..Len(fs) : fs[k].valid /\ fs[k].task = "finished"
    THEN CHOOSE k \in 1..Len(fs) : fs[k].valid /\ fs[k].task = "finished"
    ELSE i + 1

\* futures[i], for i = 0, 1, ...: the future the i-th retrieval waits for.
NextFuture(i, fs) == i + 1

\* A get() that does not wait for the task.
CanGetUnfinished(f) == TRUE

\* futures[i].get() returns only once the task has stored its result.
CanGet(f) == f.task = "finished"

\* sum_payoffs += futures[i].get();
Accumulate(sum, f) == sum + f.value

\* The objects a chunk task reads or writes: the copies of its arguments that
\* std::async made for it, and the locals of runCallChunk / runPutChunk.
\* Thread 0 is the calling thread, thread k > 0 the task of the k-th future.
TaskArguments == {"spot", "strike", "r", "vol", "T", "sim_begin", "sim_end", "seed"}
TaskLocals == {"dt", "sqrt_dt", "steps", "gen", "dist", "sum", "i", "S", "t", "z"}

\* The seed of a task that has returned: its copy of the arguments is gone.
NoSeed == MaxSeed + 1

\* One generator shared by all the tasks.
SharedGenerator(k) == <<"shared", 0, "gen">>

\* std::mt19937 gen(seed): the generator is a local of the task's own call.
GeneratorOf(k) == <<"task", k, "gen">>

TaskFootprint(k) ==
    {[thread |-> k, loc |-> <<"task", k, v>>, write |-> FALSE] : v \in TaskArguments}
    \cup {[thread |-> k, loc |-> <<"task", k, v>>, write |-> TRUE] : v \in TaskLocals \ {"gen"}}
    \cup {[thread |-> k, loc |-> GeneratorOf(k), write |-> TRUE]}
    \cup {[thread |-> k, loc |-> <<"future", k>>, write |-> TRUE]}

\* The objects the calling thread writes in the dispatch loop.
DispatchFootprint ==
    {[thread |-> 0, loc |-> <<"main", v>>, write |-> TRUE] :
        v \in {"futures", "rd", "start", "end", "seed"}}

\* The objects the calling thread reads or writes when it retrieves future k.
CollectFootprint(k) ==
    {[thread |-> 0, loc |-> <<"main", v>>, write |-> TRUE] :
        v \in {"sum_payoffs", "done", "i"}}
    \cup {[thread |-> 0, loc |-> <<"future", k>>, write |-> FALSE]}

MCIdle ==
    /\ mc_pc = "idle"
    /\ option_kind = "call"
    /\ num_simulations = 0
    /\ progress_cb = FALSE
    /\ n = 0
    /\ n_workers = 0
    /\ chunk_size = 0
    /\ futures = <<>>
    /\ start = 0
    /\ done = 0
    /\ sum_payoffs = 0
    /\ idx = 0
    /\ cb_log = <<>>
    /\ touched = {}
    /\ mc_return = [returned |-> FALSE]

\* priceCallOption / pricePutOption up to the dispatch loop.
PriceOption(kind, num, hc, cb) ==
    /\ mc_pc = "idle"
    /\ option_kind' = kind
    /\ num_simulations' = num
    /\ progress_cb' = cb
    /\ n' = ClampSimulations(num)
    /\ n_workers' = WorkerCount(hc)
    /\ chunk_size' = ChunkSize(n', n_workers')
    /\ futures' = <<>>
    /\ done' = 0
    /\ start' = 0
    /\ mc_pc' = "dispatch"
    /\ UNCHANGED <<sum_payoffs, idx, cb_log, touched, mc_return>>
    /\ UNCHANGED <<iv_vars, bs_vars, st_vars, ext_vars>>

\* One iteration of the dispatch loop: std::async(std::launch::async, ...)
\* starts the task on a thread of its own. Leaving the loop sets sum_payoffs.
Dispatch(seed) ==
    /\ mc_pc = "dispatch"
    /\ start < n
    /\ LET end == ChunkEnd(start, chunk_size, n) IN
        /\ futures' = Append(futures,
                [sim_begin |-> start, sim_end |-> end, seed |-> seed,
                 task |-> "running", value |-> 0, valid |-> TRUE])
        /\ start' = end
        /\ mc_pc' = IF end < n THEN "dispatch" ELSE "collect"
    /\ sum_payoffs' = 0
    /\ idx' = 0
    /\ touched' = touched \cup DispatchFootprint
    /\ UNCHANGED <<option_kind, num_simulations, progress_cb, n, n_workers,
                   chunk_size, done, cb_log, mc_return>>
    /\ UNCHANGED <<iv_vars, bs_vars, st_vars, ext_vars>>

\* runCallChunk / runPutChunk of task k, from its first statement to its
\* return: the payoffs are drawn from the task's own generator.
RunChunk(k, payoff) ==
    /\ k \in 1..Len(futures)
    /\ futures[k].task = "running"
    /\ LET f == futures[k]
           sum == IF f.sim_begin < f.sim_end THEN payoff ELSE 0
       IN futures' = [futures EXCEPT ![k] =
                        [f EXCEPT !.task = "finished", !.value = sum, !.seed = NoSeed]]
    /\ touched' = touched \cup TaskFootprint(k)
    /\ UNCHANGED <<mc_pc, option_kind, num_simulations, progress_cb, n, n_workers,
                   chunk_size, start, done, sum_payoffs, idx, cb_log, mc_return>>
    /\ UNCHANGED <<iv_vars, bs_vars, st_vars, ext_vars>>

\* One iteration of the retrieval loop; after the last one the call returns
\* exp(-r T) * (sum_payoffs / n).
Collect ==
    /\ mc_pc = "collect"
    /\ idx < Len(futures)
    /\ LET k == NextFuture(idx, futures) IN
        /\ CanGet(futures[k])
        /\ sum_payoffs' = Accumulate(sum_payoffs, futures[k])
        /\ done' = DoneAfter(idx, chunk_size, n)
        /\ cb_log' = IF progress_cb
                     THEN Append(cb_log, [done |-> done', total |-> n, thread |-> 0,
                                          retrieved |-> k])
                     ELSE cb_log
        /\ futures' = [futures EXCEPT ![k].valid = FALSE]
        /\ touched' = touched \cup CollectFootprint(k)
    /\ idx' = idx + 1
    /\ IF idx' = Len(futures)
       THEN /\ mc_pc' = "returned"
            /\ mc_return' = [returned |-> TRUE, sum |-> sum_payoffs', count |-> n]
       ELSE /\ mc_pc' = "collect"
            /\ mc_return' = mc_return
    /\ UNCHANGED <<option_kind, num_simulations, progress_cb, n, n_workers,
                   chunk_size, start>>
    /\ UNCHANGED <<iv_vars, bs_vars, st_vars, ext_vars>>


(***************************************************************************)
(* BlackScholes::calculateImpliedVolatility and its bisection fallback     *)
(***************************************************************************)
InitialVolatility == 300000
max_iterations == 100
tolerance == 10
NewtonVolMin == 100
NewtonVolMax == 5000000
vol_lo == 100
vol_hi == 5000000
max_it == 80
tol == 10
DefaultGuess == 300000

SpotInputs == {-ONE, 0, ONE, 2 * ONE}
StrikeInputs == {0, ONE, 100 * ONE}
TimeInputs ==
    {-1, 0, YearParts \div 100, YearParts \div 4, 4 * YearParts, 3600 * YearParts}
RateInputs == {0, ONE \div 20}
MarketPriceInputs ==
    {-(ONE \div 100), 0, ONE \div 100, ONE \div 10, ONE - ONE \div 100,
     ONE + ONE \div 100, 3 * ONE}
OptionTypes == {"CALL", "PUT"}

\* A validation that lets a negative market price through.
InvalidContractOnly(market, spot, strike, T) ==
    spot <= 0 \/ strike <= 0 \/ BelowMinTimeToExpiry(T)

\* if (spot_price <= 0 || strike_price <= 0 ||
\*     time_to_expiry < MIN_TIME_TO_EXPIRY || market_price < 0) throw ...
InvalidImpliedVolatilityInput(market, spot, strike, T) ==
    spot <= 0 \/ strike <= 0 \/ BelowMinTimeToExpiry(T) \/ market < 0

\* double vega = spot_price * standardNormalPDF(d1) * std::sqrt(time_to_expiry);
Vega(spot, d1, T) == MulFix(MulFix(spot, standardNormalPDF(d1)), SqrtTime(T))

\* vega < 1e-15, decided on the logarithms, 1e-15 being below the resolution:
\* ln spot + ln sqrt(T) - d1^2 / 2 - ln sqrt(2 pi) < -15 ln 10
\* (|d1| is cut at 40, where the inequality has long been decided)
VegaBelowThreshold(spot, d1, T) ==
    LET d == Min(Abs(d1), 40 * ONE)
    IN LnFix(spot) + LnFix(SqrtTime(T)) - MulNat(d, d) \div 2 - 918939
           < -34538776

\* A loop whose counter does not advance.
StalledIteration(i) == i

\* ++i of the two loops
NextIteration(i) == i + 1

\* A Newton iteration that looks at vega before it looks at the price.
VegaBeforeConvergence(price_diff, vega_small) ==
    IF vega_small THEN "fallback"
    ELSE IF Abs(price_diff) < tolerance THEN "converged"
    ELSE "step"

\* What one Newton iteration does once price_diff and vega are known:
\* return (converged), fall back to bisection, or take the step.
NewtonOutcome(price_diff, vega_small) ==
    IF Abs(price_diff) < tolerance THEN "converged"
    ELSE IF vega_small THEN "fallback"
    ELSE "step"

\* A step that keeps the estimate above 0.0001 but not below 5.0.
ClampVolatilityBelowOnly(vol) == Max(NewtonVolMin, vol)

\* volatility = std::max(0.0001, std::min(volatility, 5.0));
ClampVolatility(vol) == Max(NewtonVolMin, Min(vol, NewtonVolMax))

\* volatility -= price_diff / vega, then the clamp. A quotient beyond +-6
\* (a vega below the resolution included) leaves [0.0001, 5.0] on its side
\* whatever its exact value.
NewtonStep(vol, price_diff, vega) ==
    ClampVolatility(vol - DivSat(price_diff, vega, 6 * ONE))

\* The sign of the product x * y, as fa * fb > 0 and fa * fc < 0 read it.
SignOfProduct(x, y) == Sgn(x) * Sgn(y)

\* A bracket test that misses the endpoints both below the market price.
BothAboveMarket(f_a, f_b) == f_a > 0 /\ f_b > 0

\* if (fa * fb > 0) return 0.3;
NoBracket(f_a, f_b) == SignOfProduct(f_a, f_b) > 0

\* double c = 0.5 * (a + b);
Midpoint(lo, hi) == (lo + hi) \div 2

\* if ((b - a) * 0.5 < tol) return c;
HalfWidthBelowTol(lo, hi) == hi - lo < 2 * tol

\* if (fa * fc < 0) { b = c; fb = fc; } else { a = c; fa = fc; }
NarrowBracket(lo, hi, f_lo, f_hi, c, f_c) ==
    IF SignOfProduct(f_lo, f_c) < 0
    THEN [a |-> lo, b |-> c, fa |-> f_lo, fb |-> f_c]
    ELSE [a |-> c, b |-> hi, fa |-> f_c, fb |-> f_hi]

NoTrace == [newton_runs |-> 0, bis_runs |-> 0, price_evals |-> 0,
            cause |-> "none", exit |-> "none"]

IVIdle ==
    /\ iv_pc = "idle"
    /\ market_price = 0
    /\ spot_price = 0
    /\ strike_price = 0
    /\ risk_free_rate = 0
    /\ time_to_expiry = 0
    /\ option_type = "CALL"
    /\ volatility = 0
    /\ iv_i = 0
    /\ bis_a = 0
    /\ bis_b = 0
    /\ bis_fa = 0
    /\ bis_fb = 0
    /\ bis_i = 0
    /\ iv_return = [kind |-> "none", value |-> 0]
    /\ iv_trace = NoTrace

(***************************************************************************)
(* runCallChunk / runPutChunk: the paths of one chunk                      *)
(***************************************************************************)
\* constexpr double TRADING_DAYS_PER_YEAR = 252.0;
TRADING_DAYS_PER_YEAR == 252
\* A chunk simulates at most MaxPaths paths.
MaxPaths == 2

\* static_cast<int>(x / d): the fraction is dropped, towards zero
TruncDiv(x, d) == IF x >= 0 THEN x \div d ELSE -((-x) \div d)

\* const int steps = static_cast<int>(TRADING_DAYS_PER_YEAR * T);
\* T in thousandths of a year
steps(T) == TruncDiv(TRADING_DAYS_PER_YEAR * T, YearParts)

\* T: -0.004, 0, 0.002, 0.003, 0.004, 0.006 and 0.01 years
CKTimeInputs == {-4, 0, 2, 3, 4, 6, 10}

CKIdle ==
    /\ ck_pc = "idle"
    /\ ck_args = [kind |-> "none", T |-> 0, sim_begin |-> 0, sim_end |-> 0]
    /\ ck_i = 0
    /\ ck_t = 0
    /\ ck_paths = <<>>

\* runCallChunk(..., T, sim_begin, sim_end, seed) up to the first test of
\* the outer loop
RunChunkCall(kind, T, sim_begin, sim_end) ==
    /\ ck_pc \in {"idle", "returned"}
    /\ ck_pc' = "running"
    /\ ck_args' = [kind |-> kind, T |-> T, sim_begin |-> sim_begin,
                   sim_end |-> sim_end]
    /\ ck_i' = sim_begin
    /\ ck_t' = 0
    /\ ck_paths' = <<>>
    /\ UNCHANGED ck_others

\* for (int t = 0; t < steps; ++t) { z = dist(gen); S *= exp(...); }
SimulateStep ==
    /\ ck_pc = "running"
    /\ ck_i < ck_args.sim_end
    /\ ck_t < steps(ck_args.T)
    /\ ck_t' = ck_t + 1
    /\ UNCHANGED <<ck_others, ck_pc, ck_args, ck_i, ck_paths>>

\* the inner loop ends; sum += payoff; ++i
FinishPath ==
    /\ ck_pc = "running"
    /\ ck_i < ck_args.sim_end
    /\ ck_t >= steps(ck_args.T)
    /\ ck_paths' = Append(ck_paths, ck_t)
    /\ ck_i' = ck_i + 1
    /\ ck_t' = 0
    /\ UNCHANGED <<ck_others, ck_pc, ck_args>>

\* return sum;
ChunkReturn ==
    /\ ck_pc = "running"
    /\ ck_i >= ck_args.sim_end
    /\ ck_pc' = "returned"
    /\ UNCHANGED <<ck_others, ck_args, ck_i, ck_t, ck_paths>>

CKNext ==
    \/ \E kind \in {"call", "put"}, T \in CKTimeInputs, sim_end \in 0..MaxPaths :
            RunChunkCall(kind, T, 0, sim_end)
    \/ SimulateStep
    \/ FinishPath
    \/ ChunkReturn

(***************************************************************************)
(* MarketDataProvider over a DataFeedInterface                             *)
(***************************************************************************)
\* std::vector<std::string> stock_symbols = {"TSLA", "NVDA", "AMZN", "AAPL", "GOOG"};
stock_symbols == <<"TSLA", "NVDA", "AMZN", "AAPL", "GOOG">>

Symbols == {stock_symbols[k] : k \in 1..Len(stock_symbols)}

\* OptionalDouble() and OptionalDouble(v)
Nullopt == [has |-> FALSE, value |-> 0]
Some(v) == [has |-> TRUE, value |-> v]

\* the quotes a feed can hold: none, 0.00 and 1.00
Quotes == {Nullopt, Some(0), Some(ONE)}

\* DataFeedInterface::setCurrentPrice: PaperFeed stores the price, the
\* other feeds keep the default, which does nothing
feedSetCurrentPrice(kind, prices, symbol, price) ==
    IF kind = "PaperFeed" THEN [prices EXCEPT ![symbol] = Some(price)] ELSE prices

\* A cache that forgets what it is given.
CacheNothing(cache, symbol, price) == cache

\* current_prices_cache_[symbol] = price;
CachePrice(cache, symbol, price) == [cache EXCEPT ![symbol] = Some(price)]

\* MarketDataProvider::updateCurrentPrice: its result and the cache after it
updateCurrentPrice(cache, prices, symbol) ==
    IF prices[symbol].has
    THEN [ok |-> TRUE, cache |-> CachePrice(cache, symbol, prices[symbol].value)]
    ELSE [ok |-> FALSE, cache |-> cache]

\* MarketDataProvider::getCurrentPrice
getCurrentPrice(cache, prices, symbol) ==
    IF cache[symbol].has THEN cache[symbol] ELSE prices[symbol]

NoPrices == [symbol \in Symbols |-> Nullopt]

MDIdle ==
    /\ md_pc = "idle"
    /\ feed_kind = "none"
    /\ feed_prices = NoPrices
    /\ current_prices_cache_ = NoPrices
    /\ md_stored = NoPrices
    /\ md_call = [op |-> "none", symbol |-> "none", result |-> Nullopt,
                  feed |-> Nullopt]

\* the symbols the provider is asked about
MDSymbols == {"TSLA", "NVDA"}

\* MarketDataProvider::MarketDataProvider, both constructors
ProviderConstructed(kind) ==
    /\ md_pc = "idle"
    /\ md_pc' = "ready"
    /\ feed_kind' = kind
    /\ UNCHANGED <<feed_prices, current_prices_cache_, md_stored, md_call>>

NewProvider(kind) == ProviderConstructed(kind) /\ UNCHANGED md_others

\* what a call of updateCurrentPrice does to the provider
PriceFetched(symbol) ==
    /\ md_pc = "ready"
    /\ LET r == updateCurrentPrice(current_prices_cache_, feed_prices, symbol)
       IN /\ current_prices_cache_' = r.cache
          /\ md_stored' = IF r.ok THEN [md_stored EXCEPT ![symbol] = feed_prices[symbol]]
                          ELSE md_stored
          /\ md_call' = [op |-> "updateCurrentPrice", symbol |-> symbol,
                         result |-> [has |-> r.ok, value |-> 0],
                         feed |-> feed_prices[symbol]]
    /\ UNCHANGED <<md_pc, feed_kind, feed_prices>>

UpdateCurrentPrice(symbol) == PriceFetched(symbol) /\ UNCHANGED md_others

SetCurrentPrice(symbol, price) ==
    /\ md_pc = "ready"
    /\ current_prices_cache_' = CachePrice(current_prices_cache_, symbol, price)
    /\ feed_prices' = feedSetCurrentPrice(feed_kind, feed_prices, symbol, price)
    /\ md_stored' = [md_stored EXCEPT ![symbol] = Some(price)]
    /\ md_call' = [op |-> "setCurrentPrice", symbol |-> symbol, result |-> Nullopt,
                   feed |-> feed_prices'[symbol]]
    /\ UNCHANGED <<md_pc, feed_kind>>
    /\ UNCHANGED md_others

GetCurrentPrice(symbol) ==
    /\ md_pc = "ready"
    /\ md_call' = [op |-> "getCurrentPrice", symbol |-> symbol,
                   result |-> getCurrentPrice(current_prices_cache_, feed_prices,
                                              symbol),
                   feed |-> feed_prices[symbol]]
    /\ UNCHANGED <<md_pc, feed_kind, feed_prices, current_prices_cache_, md_stored>>
    /\ UNCHANGED md_others

\* The quote AlphaVantageFeed would fetch for a symbol changes, or the
\* request for it starts or stops failing.
QuoteMoved(symbol, quote) ==
    /\ md_pc = "ready"
    /\ feed_kind = "AlphaVantageFeed"
    /\ feed_prices[symbol] # quote
    /\ feed_prices' = [feed_prices EXCEPT ![symbol] = quote]
    /\ UNCHANGED <<md_pc, feed_kind, current_prices_cache_, md_stored, md_call>>

QuoteChanges(symbol, quote) == QuoteMoved(symbol, quote) /\ UNCHANGED md_others

MDNext ==
    \/ \E kind \in {"PaperFeed", "AlphaVantageFeed"} : NewProvider(kind)
    \/ \E symbol \in MDSymbols : UpdateCurrentPrice(symbol)
    \/ \E symbol \in MDSymbols, price \in {0, ONE} : SetCurrentPrice(symbol, price)
    \/ \E symbol \in MDSymbols : GetCurrentPrice(symbol)
    \/ \E symbol \in MDSymbols, quote \in Quotes : QuoteChanges(symbol, quote)

(***************************************************************************)
(* main() of the command-line front end: the batch over stock_symbols      *)
(***************************************************************************)
\* const int MAX_RETRIES = 3;
MAX_RETRIES == 3

\* the smallest of strike_multipliers, 0.9
LowestStrikeMultiplier == 900000

\* the nearest expiration, getNextFriday(0): one to seven days ahead
NearestExpiry == 3

CLIIdle ==
    /\ cli_pc = "idle"
    /\ cli_symbol = 0
    /\ retry = 0
    /\ success = FALSE
    /\ cli_attempts = [k \in 1..Len(stock_symbols) |-> <<>>]
    /\ cli_reported = {}

\* main() up to the loop over stock_symbols: the provider is built over an
\* AlphaVantageFeed
Main ==
    /\ cli_pc = "idle"
    /\ ProviderConstructed("AlphaVantageFeed")
    /\ cli_pc' = "fetch"
    /\ cli_symbol' = 1
    /\ retry' = 0
    /\ success' = FALSE
    /\ UNCHANGED <<cli_attempts, cli_reported>>
    /\ UNCHANGED cli_others

\* One iteration of the retry loop:
\* success = market_data.updateCurrentPrice(symbol); retry++
Attempt ==
    /\ cli_pc = "fetch"
    /\ retry < MAX_RETRIES /\ ~success
    /\ PriceFetched(stock_symbols[cli_symbol])
    /\ success' = md_call'.result.has
    /\ retry' = retry + 1
    /\ cli_attempts' = [cli_attempts EXCEPT ![cli_symbol] = Append(@, success')]
    /\ UNCHANGED <<cli_pc, cli_symbol, cli_reported>>
    /\ UNCHANGED cli_others

\* for (const auto& symbol : stock_symbols): the next symbol, or the end of
\* main with return 0
NextSymbol ==
    /\ retry' = 0
    /\ success' = FALSE
    /\ IF cli_symbol < Len(stock_symbols)
       THEN cli_symbol' = cli_symbol + 1 /\ cli_pc' = "fetch"
       ELSE cli_symbol' = cli_symbol /\ cli_pc' = "done"

\* The rest of the loop body once the retry loop is left: the symbol is
\* skipped if no attempt succeeded or no price is available; otherwise its
\* table is printed, and an exception of the pricing functions leaves main
\* through catch (const std::exception&) with return 1.
Report ==
    /\ cli_pc = "fetch"
    /\ ~(retry < MAX_RETRIES /\ ~success)
    /\ LET symbol == stock_symbols[cli_symbol]
           current_price == getCurrentPrice(current_prices_cache_, feed_prices, symbol)
       IN IF ~success
          THEN NextSymbol /\ UNCHANGED <<cli_reported, md_call>>
          ELSE /\ md_call' = [op |-> "getCurrentPrice", symbol |-> symbol,
                              result |-> current_price, feed |-> feed_prices[symbol]]
               /\ IF ~current_price.has
                  THEN NextSymbol /\ UNCHANGED cli_reported
                  ELSE IF PriceThrows(current_price.value,
                                      MulFix(current_price.value, LowestStrikeMultiplier),
                                      NearestExpiry)
                  THEN /\ cli_pc' = "error"
                       /\ UNCHANGED <<cli_symbol, retry, success, cli_reported>>
                  ELSE /\ cli_reported' = cli_reported \cup {symbol}
                       /\ NextSymbol
    /\ UNCHANGED <<cli_attempts, md_pc, feed_kind, feed_prices, current_prices_cache_,
                   md_stored>>
    /\ UNCHANGED cli_others

\* The quote of the symbol in progress changes while main runs.
QuoteChangesDuringBatch(quote) ==
    /\ cli_pc = "fetch"
    /\ QuoteMoved(stock_symbols[cli_symbol], quote)
    /\ UNCHANGED cli_vars
    /\ UNCHANGED cli_others

CLINext ==
    \/ Main
    \/ Attempt
    \/ Report
    \/ \E quote \in Quotes : QuoteChangesDuringBatch(quote)

(***************************************************************************)
(* PaperTradingSystem                                                      *)
(***************************************************************************)
\* A ledger holds at most MaxPositions positions, no position more than
\* MaxQuantity contracts, and between -MaxCash and MaxCash in cash.
MaxPositions == 2
MaxQuantity == 2
MaxCash == 6

\* double transaction_fee = 1.0 * quantity;
FeePerContract == 1

\* the options passed to buyOption and sellOption: a call and a put on one
\* symbol and strike, expiring at time 1, priced 0.00 or 3.00
PTOptions ==
    [type : {"CALL", "PUT"}, expiry : {1}, current_price : {0, 3}]

\* the options bought are calls; selling a put finds no position
PTBought == {option \in PTOptions : option.type = "CALL"}

PTQuantities == {-1, 0, 1, 2}

\* OptionPosition{option, quantity, current_price, ...}
OptionPosition(option, quantity) ==
    [option |-> option, quantity |-> quantity, entry_price |-> option.current_price]

NoLedgerCall(clean) ==
    [op |-> "none", option |-> [type |-> "CALL", expiry |-> 0, current_price |-> 0],
     quantity |-> 0, result |-> FALSE, cash_before |-> 0, positions_before |-> <<>>,
     clean |-> clean]

PTIdle ==
    /\ pt_pc = "idle"
    /\ cash_balance = 0
    /\ open_positions = <<>>
    /\ pt_call = NoLedgerCall(TRUE)

\* PaperTradingSystem::PaperTradingSystem(initial_balance, key)
NewLedger(initial_balance) ==
    /\ pt_pc = "idle"
    /\ pt_pc' = "open"
    /\ cash_balance' = initial_balance
    /\ open_positions' = <<>>
    /\ pt_call' = NoLedgerCall(initial_balance >= 0)
    /\ UNCHANGED pt_others

\* the record of a call: its arguments, its result and the ledger before it;
\* clean stays true while every call had quantity > 0 and price >= 0
LedgerCall(op, option, quantity, result) ==
    [op |-> op, option |-> option, quantity |-> quantity, result |-> result,
     cash_before |-> cash_balance, positions_before |-> open_positions,
     clean |-> pt_call.clean /\ quantity > 0 /\ option.current_price >= 0]

\* A funds check that forgets the transaction fee.
InsufficientFundsWithoutFee(option, quantity, cash) ==
    option.current_price * quantity > cash

\* if (total_cost + transaction_fee > cash_balance) return false;
InsufficientFunds(option, quantity, cash) ==
    option.current_price * quantity + FeePerContract * quantity > cash

\* PaperTradingSystem::buyOption
BuyOption(option, quantity) ==
    /\ pt_pc = "open"
    /\ IF quantity <= 0 \/ InsufficientFunds(option, quantity, cash_balance)
       THEN /\ pt_call' = LedgerCall("buyOption", option, quantity, FALSE)
            /\ UNCHANGED <<cash_balance, open_positions>>
       ELSE /\ Len(open_positions) < MaxPositions
            /\ open_positions' = Append(open_positions, OptionPosition(option, quantity))
            /\ cash_balance' = cash_balance
                    - (option.current_price * quantity + FeePerContract * quantity)
            /\ pt_call' = LedgerCall("buyOption", option, quantity, TRUE)
    /\ UNCHANGED pt_pc
    /\ UNCHANGED pt_others

\* the find_if of sellOption: the first position on the same contract that
\* holds at least quantity, 0 if there is none
MatchingPosition(positions, option, quantity) ==
    LET matches == {k \in 1..Len(positions) :
                        /\ positions[k].option.type = option.type
                        /\ positions[k].quantity >= quantity}
    IN IF matches = {} THEN 0
       ELSE CHOOSE k \in matches : \A j \in matches : k <= j

\* open_positions.erase(pos_it)
Erase(positions, k) ==
    [j \in 1..(Len(positions) - 1) |-> IF j < k THEN positions[j] ELSE positions[j + 1]]

\* PaperTradingSystem::sellOption
SellOption(option, quantity) ==
    /\ pt_pc = "open"
    /\ LET k == MatchingPosition(open_positions, option, quantity)
       IN IF k = 0
          THEN /\ pt_call' = LedgerCall("sellOption", option, quantity, FALSE)
               /\ UNCHANGED <<cash_balance, open_positions>>
          ELSE /\ open_positions[k].quantity - quantity <= MaxQuantity
               /\ open_positions' =
                    IF open_positions[k].quantity - quantity = 0
                    THEN Erase(open_positions, k)
                    ELSE [open_positions EXCEPT ![k].quantity = @ - quantity]
               /\ cash_balance' = cash_balance
                    + (option.current_price * quantity - FeePerContract * quantity)
               /\ cash_balance' \in -MaxCash..MaxCash
               /\ pt_call' = LedgerCall("sellOption", option, quantity, TRUE)
    /\ UNCHANGED pt_pc
    /\ UNCHANGED pt_others

\* the positions that closeExpiredPositions keeps, and what it pays out
RECURSIVE Unexpired(_, _)
Unexpired(positions, current_time) ==
    IF positions = <<>> THEN <<>>
    ELSE IF positions[1].option.expiry <= current_time
    THEN Unexpired(Tail(positions), current_time)
    ELSE <<positions[1]>> \o Unexpired(Tail(positions), current_time)

RECURSIVE ExpiredPayout(_, _)
ExpiredPayout(positions, current_time) ==
    IF positions = <<>> THEN 0
    ELSE (IF positions[1].option.expiry <= current_time
          THEN positions[1].option.current_price * positions[1].quantity
          ELSE 0) + ExpiredPayout(Tail(positions), current_time)

\* PaperTradingSystem::closeExpiredPositions, current_time = std::time(nullptr)
CloseExpiredPositions(current_time) ==
    /\ pt_pc = "open"
    /\ open_positions' = Unexpired(open_positions, current_time)
    /\ cash_balance' = cash_balance + ExpiredPayout(open_positions, current_time)
    /\ cash_balance' <= MaxCash
    /\ pt_call' = [LedgerCall("closeExpiredPositions", pt_call.option, 1, TRUE)
                      EXCEPT !.clean = pt_call.clean]
    /\ UNCHANGED pt_pc
    /\ UNCHANGED pt_others

PTNext ==
    \/ \E initial_balance \in {0, 5} : NewLedger(initial_balance)
    \/ \E option \in PTBought, quantity \in PTQuantities : BuyOption(option, quantity)
    \/ \E option \in PTOptions, quantity \in PTQuantities : SellOption(option, quantity)
    \/ \E current_time \in 0..1 : CloseExpiredPositions(current_time)

Init ==
    MCIdle /\ IVIdle /\ BSIdle /\ STIdle /\ CKIdle /\ MDIdle /\ CLIIdle /\ PTIdle

IVReturn(value, how, trace) ==
    /\ iv_pc' = "returned"
    /\ iv_return' = [kind |-> "value", value |-> value]
    /\ iv_trace' = [trace EXCEPT !.exit = how]

IVThrow ==
    /\ iv_pc' = "threw"
    /\ iv_return' = [kind |-> "invalid_argument", value |-> 0]

\* calculateImpliedVolatility up to the Newton loop.
ImpliedVolatilityCall(market, spot, strike, rate, T, type) ==
    /\ iv_pc = "idle"
    /\ market_price' = market
    /\ spot_price' = spot
    /\ strike_price' = strike
    /\ risk_free_rate' = rate
    /\ time_to_expiry' = T
    /\ option_type' = type
    /\ IF InvalidImpliedVolatilityInput(market, spot, strike, T)
       THEN /\ IVThrow
            /\ UNCHANGED <<volatility, iv_i, iv_trace>>
       ELSE /\ iv_pc' = "newton"
            /\ volatility' = InitialVolatility
            /\ iv_i' = 0
            /\ UNCHANGED <<iv_return, iv_trace>>
    /\ UNCHANGED <<bis_a, bis_b, bis_fa, bis_fb, bis_i>>
    /\ UNCHANGED <<mc_vars, bs_vars, st_vars, ext_vars>>

\* One iteration of the Newton loop (the loop's exit after the last one
\* included): the return on convergence, the switch to the fallback on a
\* small vega or after max_iterations iterations, or the clamped step.
NewtonIteration ==
    /\ iv_pc = "newton"
    /\ iv_i < max_iterations
    /\ LET vol == IF BelowMinVolatility(volatility) THEN 0 ELSE volatility
           d1 == D1(spot_price, strike_price, risk_free_rate, vol, time_to_expiry)
           vega == Vega(spot_price, d1, time_to_expiry)
           price_diff == ModelPrice(option_type, spot_price, strike_price,
                                    risk_free_rate, vol, time_to_expiry) - market_price
           outcome == NewtonOutcome(price_diff,
                          VegaBelowThreshold(spot_price, d1, time_to_expiry))
           trace == [iv_trace EXCEPT !.newton_runs = @ + 1, !.price_evals = @ + 1]
       IN IF PriceThrows(spot_price, strike_price, time_to_expiry)
          THEN /\ IVThrow
               /\ iv_trace' = trace
               /\ UNCHANGED <<volatility, iv_i>>
          ELSE CASE outcome = "converged" ->
                    /\ IVReturn(vol, "newton", trace)
                    /\ volatility' = vol
                    /\ UNCHANGED iv_i
               [] outcome = "fallback" ->
                    /\ iv_pc' = "fallback"
                    /\ iv_trace' = [trace EXCEPT !.cause = "vega"]
                    /\ volatility' = vol
                    /\ UNCHANGED <<iv_i, iv_return>>
               [] OTHER ->
                    /\ volatility' = NewtonStep(vol, price_diff, vega)
                    /\ iv_i' = NextIteration(iv_i)
                    /\ IF iv_i' < max_iterations
                       THEN /\ iv_pc' = "newton"
                            /\ iv_trace' = trace
                       ELSE /\ iv_pc' = "fallback"
                            /\ iv_trace' = [trace EXCEPT !.cause = "exhausted"]
                    /\ UNCHANGED iv_return
    /\ UNCHANGED <<market_price, spot_price, strike_price, risk_free_rate,
                   time_to_expiry, option_type, bis_a, bis_b, bis_fa, bis_fb, bis_i>>
    /\ UNCHANGED <<mc_vars, bs_vars, st_vars, ext_vars>>

\* impliedVolatilityBisection up to its loop: the endpoints, f at both, and
\* the return of the default guess when they do not bracket a root.
BisectionStart ==
    /\ iv_pc = "fallback"
    /\ LET f_a == ModelPrice(option_type, spot_price, strike_price, risk_free_rate,
                             vol_lo, time_to_expiry) - market_price
           f_b == ModelPrice(option_type, spot_price, strike_price, risk_free_rate,
                             vol_hi, time_to_expiry) - market_price
           trace == [iv_trace EXCEPT !.price_evals = @ + 2]
       IN /\ bis_a' = vol_lo
          /\ bis_b' = vol_hi
          /\ bis_i' = 0
          /\ IF PriceThrows(spot_price, strike_price, time_to_expiry)
             THEN /\ IVThrow
                  /\ iv_trace' = trace
                  /\ UNCHANGED <<bis_fa, bis_fb>>
             ELSE /\ bis_fa' = f_a
                  /\ bis_fb' = f_b
                  /\ IF NoBracket(f_a, f_b)
                     THEN IVReturn(DefaultGuess, "default", trace)
                     ELSE /\ iv_pc' = "bisection"
                          /\ iv_trace' = trace
                          /\ UNCHANGED iv_return
    /\ UNCHANGED <<market_price, spot_price, strike_price, risk_free_rate,
                   time_to_expiry, option_type, volatility, iv_i>>
    /\ UNCHANGED <<mc_vars, bs_vars, st_vars, ext_vars>>

\* One iteration of the bisection loop (the loop's exit after the last one
\* included).
BisectionIteration ==
    /\ iv_pc = "bisection"
    /\ bis_i < max_it
    /\ LET c == Midpoint(bis_a, bis_b)
           fc == ModelPrice(option_type, spot_price, strike_price, risk_free_rate,
                            c, time_to_expiry) - market_price
           runs == [iv_trace EXCEPT !.bis_runs = @ + 1]
           trace == [runs EXCEPT !.price_evals = @ + 1]
           next == NarrowBracket(bis_a, bis_b, bis_fa, bis_fb, c, fc)
       IN IF HalfWidthBelowTol(bis_a, bis_b)
          THEN /\ IVReturn(c, "width", runs)
               /\ UNCHANGED <<bis_a, bis_b, bis_fa, bis_fb, bis_i>>
          ELSE IF PriceThrows(spot_price, strike_price, time_to_expiry)
          THEN /\ IVThrow
               /\ iv_trace' = trace
               /\ UNCHANGED <<bis_a, bis_b, bis_fa, bis_fb, bis_i>>
          ELSE IF Abs(fc) < tol
          THEN /\ IVReturn(c, "fc", trace)
               /\ UNCHANGED <<bis_a, bis_b, bis_fa, bis_fb, bis_i>>
          ELSE /\ bis_a' = next.a
               /\ bis_b' = next.b
               /\ bis_fa' = next.fa
               /\ bis_fb' = next.fb
               /\ bis_i' = NextIteration(bis_i)
               /\ IF bis_i' < max_it
                  THEN /\ iv_pc' = "bisection"
                       /\ iv_trace' = trace
                       /\ UNCHANGED iv_return
                  ELSE IVReturn(Midpoint(next.a, next.b), "exhausted", trace)
    /\ UNCHANGED <<market_price, spot_price, strike_price, risk_free_rate,
                   time_to_expiry, option_type, volatility, iv_i>>
    /\ UNCHANGED <<mc_vars, bs_vars, st_vars, ext_vars>>

IVNext ==
    \/ \E market \in MarketPriceInputs, spot \in SpotInputs, strike \in StrikeInputs,
          rate \in RateInputs, T \in TimeInputs, type \in OptionTypes :
            ImpliedVolatilityCall(market, spot, strike, rate, T, type)
    \/ NewtonIteration
    \/ BisectionStart
    \/ BisectionIteration

IVSpec == Init /\ [][IVNext]_vars

(***************************************************************************)
(* Specifications                                                          *)
(***************************************************************************)
MCNext ==
    \/ \E kind \in {"call", "put"}, num \in NumSimulationsInputs,
          hc \in HardwareConcurrencyValues, cb \in BOOLEAN :
            PriceOption(kind, num, hc, cb)
    \/ \E seed \in 0..MaxSeed : Dispatch(seed)
    \/ \E k \in 1..Len(futures), payoff \in 0..MaxChunkPayoff : RunChunk(k, payoff)
    \/ Collect

\* std::launch::async runs every task on a thread of its own and runCallChunk
\* has only bounded loops, so every task is eventually run to its return; the
\* calling thread is not preempted for ever.
MCFairness ==
    /\ WF_vars(\E seed \in 0..MaxSeed : Dispatch(seed))
    /\ WF_vars(Collect)
    /\ \A k \in 1..MaxFutures :
            WF_vars(\E payoff \in 0..MaxChunkPayoff : RunChunk(k, payoff))

MCSpec == Init /\ [][MCNext]_vars /\ MCFairness

BSSpec == Init /\ [][BSNext]_vars

STSpec == Init /\ [][STNext]_vars

CKSpec == Init /\ [][CKNext]_vars

MDSpec == Init /\ [][MDNext]_vars

CLISpec == Init /\ [][CLINext]_vars

PTSpec == Init /\ [][PTNext]_vars

(***************************************************************************)
(* Properties of the Monte Carlo pricer                                    *)
(***************************************************************************)
RECURSIVE SumValues(_, _)
SumValues(fs, k) == IF k = 0 THEN 0 ELSE fs[k].value + SumValues(fs, k - 1)

ChunkLength(f) == f.sim_end - f.sim_begin

LastProgress == cb_log[Len(cb_log)]

\* C1 as the specification words it: in a call with a progress callback, the
\* count handed to the callback after the last chunk is numSimulations, for
\* any numSimulations.
C1_LastDoneIsNumSimulations ==
    (mc_pc = "returned" /\ progress_cb) =>
        LastProgress.done = num_simulations

\* C1: in a call with a progress callback, the count handed to the callback
\* after the last chunk is numSimulations clamped to at least 1, for any
\* numSimulations and any worker count.
C1_LastDoneIsClampedCount ==
    (mc_pc = "returned" /\ progress_cb) =>
        /\ Len(cb_log) >= 1
        /\ LastProgress.done = (IF num_simulations >= 1 THEN num_simulations ELSE 1)

\* A call with a callback has returned after three or more chunks of which
\* the last is shorter than the others.
C1_Witness ==
    /\ mc_pc = "returned"
    /\ progress_cb
    /\ Len(futures) >= 3
    /\ num_simulations % chunk_size # 0
    /\ LastProgress.done = num_simulations

\* C2: the callback runs once per retrieved chunk, on the calling thread, its
\* k-th invocation after the k-th issued future has been retrieved (whatever
\* order the tasks finish in); the counts it reports increase strictly and
\* never exceed the reported total; at the return it has run once per chunk.
C2_ProgressInIssuanceOrder ==
    /\ Len(cb_log) = (IF progress_cb THEN idx ELSE 0)
    /\ \A k \in 1..Len(cb_log) :
        /\ cb_log[k].thread = 0
        /\ cb_log[k].retrieved = k
        /\ futures[k].task = "finished"
        /\ ~futures[k].valid
        /\ cb_log[k].done <= cb_log[k].total
        /\ k > 1 => cb_log[k - 1].done < cb_log[k].done
    /\ (mc_pc = "returned" /\ progress_cb) => Len(cb_log) = Len(futures)

\* The third task finished before the second while the callback has run
\* once, for the first chunk.
C2_Witness ==
    /\ progress_cb
    /\ Len(futures) >= 3
    /\ Len(cb_log) = 1
    /\ futures[2].task = "running"
    /\ futures[3].task = "finished"

\* C3: the chunks are non-empty, contiguous from 0 and, once the dispatch
\* loop is left, end at n = max(1, numSimulations); every chunk but the last
\* has max(500, n / workerCount) simulations and the last has no more; there
\* is one future, hence one task, per chunk.
C3_ChunksPartitionSimulations ==
    mc_pc # "idle" =>
        LET size == IF n \div n_workers > MIN_CHUNK THEN n \div n_workers ELSE MIN_CHUNK
            count == Len(futures)
        IN /\ n = (IF num_simulations >= 1 THEN num_simulations ELSE 1)
           /\ \A k \in 1..count :
                /\ futures[k].sim_begin < futures[k].sim_end
                /\ futures[k].sim_begin = (IF k = 1 THEN 0 ELSE futures[k - 1].sim_end)
                /\ ChunkLength(futures[k]) <= size
                /\ (k < count \/ mc_pc = "dispatch") => ChunkLength(futures[k]) = size
           /\ mc_pc = "dispatch" =>
                /\ start = (IF count = 0 THEN 0 ELSE futures[count].sim_end)
                /\ start < n
           /\ mc_pc \in {"collect", "returned"} =>
                /\ count >= 1
                /\ futures[count].sim_end = n
                /\ count = (n + size - 1) \div size

\* The dispatch loop is finished with three chunks of more than MIN_CHUNK
\* simulations, the last one shorter.
C3_Witness ==
    /\ mc_pc = "collect"
    /\ Len(futures) >= 3
    /\ chunk_size > MIN_CHUNK
    /\ ChunkLength(futures[Len(futures)]) < chunk_size

\* C4: when the call returns, every dispatched task has completed and the
\* total is the sum of the tasks' results, each counted once; and a call
\* whose tasks all terminate returns.
C4_ReturnsAfterAllChunks ==
    /\ [](mc_return.returned =>
            /\ \A k \in 1..Len(futures) : futures[k].task = "finished"
            /\ mc_return.sum = SumValues(futures, Len(futures)))
    /\ ((mc_pc = "dispatch") ~> (mc_pc = "returned"))

\* The call has returned the sum of three or more non-zero chunk results.
C4_Witness ==
    /\ mc_return.returned
    /\ Len(futures) >= 3
    /\ \A k \in 1..Len(futures) : futures[k].value > 0
    /\ mc_return.sum >= 3

Conflict(a, b) ==
    /\ a.thread # b.thread
    /\ a.loc = b.loc
    /\ a.write \/ b.write

\* C5: no two chunk tasks access a common variable that one of them writes;
\* each task's generator and seed are touched by that task alone; the payoff
\* total and the done counter are touched by the calling thread alone; the
\* only objects two threads both touch are a task's future, written by the
\* task before get() returns and read by the calling thread after.
C5_NoSharedMutableState ==
    /\ \A a, b \in touched :
            Conflict(a, b) =>
                /\ a.thread = 0 \/ b.thread = 0
                /\ a.loc[1] = "future"
    /\ \A a \in touched :
        /\ a.loc[1] = "task" => a.thread = a.loc[2]
        /\ a.loc \in {<<"main", "sum_payoffs">>, <<"main", "done">>} => a.thread = 0
    /\ \A k \in 1..Len(futures) :
            futures[k].task = "finished" =>
                /\ [thread |-> k, loc |-> GeneratorOf(k), write |-> TRUE] \in touched
                /\ [thread |-> k, loc |-> <<"task", k, "seed">>, write |-> FALSE] \in touched
                /\ [thread |-> k, loc |-> <<"task", k, "sum">>, write |-> TRUE] \in touched

\* Two tasks have run to their end while the calling thread is still
\* dispatching and a third task is running.
C5_Witness ==
    /\ mc_pc = "dispatch"
    /\ Len(futures) >= 3
    /\ futures[1].task = "finished"
    /\ futures[2].task = "finished"
    /\ futures[3].task = "running"

(***************************************************************************)
(* Properties of calculateImpliedVolatility                                *)
(***************************************************************************)
\* f(sigma) = model price at sigma - market price, for the current call
PriceError(vol) ==
    ModelPrice(option_type, spot_price, strike_price, risk_free_rate, vol,
               time_to_expiry) - market_price

ValidCall ==
    /\ iv_pc # "idle"
    /\ spot_price > 0
    /\ strike_price > 0
    /\ time_to_expiry > 0
    /\ market_price >= 0

BisectionExits == {"default", "width", "fc", "exhausted"}

\* C6: the solver is a two-phase machine. A Newton iteration hands over to
\* the fallback exactly when it has not converged and either finds vega below
\* 1e-15 or is the 100th; a return from the Newton phase returns the Newton
\* estimate; once the fallback is entered no Newton step is taken and the
\* value returned is the one bisection produces.
C6_NewtonThenBisection ==
    [][ /\ iv_pc = "newton" =>
            LET d1 == D1(spot_price, strike_price, risk_free_rate, volatility,
                         time_to_expiry)
                converged == Abs(PriceError(volatility)) < 10
                vega_small == VegaBelowThreshold(spot_price, d1, time_to_expiry)
            IN /\ iv_pc' \in {"newton", "fallback", "returned"}
               /\ iv_pc' = "fallback" <=> (~converged /\ (vega_small \/ iv_i = 99))
               /\ iv_pc' = "returned" <=> converged
               /\ iv_pc' = "returned" =>
                    /\ iv_return'.value = volatility
                    /\ iv_trace'.exit = "newton"
                    /\ iv_trace'.cause = "none"
        /\ iv_pc \in {"fallback", "bisection"} =>
            /\ iv_pc' \in {"bisection", "returned"}
            /\ iv_trace.cause \in {"vega", "exhausted"}
            /\ volatility' = volatility
            /\ iv_i' = iv_i
            /\ iv_trace'.newton_runs = iv_trace.newton_runs
            /\ iv_pc' = "returned" =>
                /\ iv_trace'.exit \in BisectionExits
                /\ iv_return'.value =
                      IF iv_pc = "fallback" THEN 300000
                      ELSE IF iv_trace'.exit = "exhausted"
                           THEN Midpoint(bis_a', bis_b')
                           ELSE Midpoint(bis_a, bis_b)
      ]_vars

\* After three or more Newton iterations a small vega sent the call to the
\* fallback, whose bisection ran five or more iterations and returned.
C6_Witness ==
    /\ iv_pc = "returned"
    /\ iv_trace.cause = "vega"
    /\ iv_trace.newton_runs >= 3
    /\ iv_trace.bis_runs >= 5
    /\ iv_trace.exit \in {"width", "fc"}

\* The most steps the call can still take: the Newton iterations left, the
\* start of the fallback, and the bisection iterations left.
StepsLeft ==
    CASE iv_pc = "newton" -> (100 - iv_i) + 1 + 80
      [] iv_pc = "fallback" -> 1 + 80
      [] iv_pc = "bisection" -> 80 - bis_i
      [] OTHER -> 0

\* C7: a call with valid inputs never raises, runs at most 100 Newton
\* iterations and then at most 80 bisection iterations, and returns: while it
\* has not returned its next step can be taken (the loop it is in has
\* iterations left), and every step uses up one of the steps left.
C7_TerminatesWithinBounds ==
    /\ [](ValidCall =>
            /\ iv_pc \in {"newton", "fallback", "bisection", "returned"}
            /\ iv_trace.newton_runs <= 100
            /\ iv_trace.bis_runs <= 80
            /\ iv_pc = "newton" => iv_i < 100
            /\ iv_pc = "bisection" => bis_i < 80
            /\ StepsLeft >= 0)
    /\ [][ValidCall => StepsLeft' < StepsLeft]_vars

\* A call has returned after all 100 Newton iterations.
C7_Witness ==
    /\ iv_pc = "returned"
    /\ ValidCall
    /\ iv_trace.newton_runs = 100
    /\ iv_trace.cause = "exhausted"

\* The width of the bracket after i halvings of [vol_lo, vol_hi], the
\* midpoint being rounded to the resolution.
HalvedWidth(i) == IF i > 30 THEN 0 ELSE (vol_hi - vol_lo) \div 2^i

\* C8: when the fallback is entered with f(0.0001) * f(5.0) <= 0, bisection
\* keeps a bracket [a, b] with a <= b and f(a) * f(b) <= 0 whose width halves
\* at every iteration, and returns a volatility within 1e-5 of a sign change
\* of f or one where |f| < 1e-5.
C8_BisectionKeepsBracket ==
    /\ iv_pc = "bisection" =>
        /\ bis_a <= bis_b
        /\ bis_fa = PriceError(bis_a)
        /\ bis_fb = PriceError(bis_b)
        /\ SignOfProduct(bis_fa, bis_fb) <= 0
        /\ bis_b - bis_a >= HalvedWidth(bis_i)
        /\ bis_b - bis_a <= HalvedWidth(bis_i) + 1
    /\ (iv_pc = "returned" /\ iv_trace.exit \in {"width", "fc", "exhausted"}) =>
        \/ Abs(PriceError(iv_return.value)) < 10
        \/ /\ bis_a <= iv_return.value
           /\ iv_return.value <= bis_b
           /\ iv_return.value - bis_a <= 10
           /\ bis_b - iv_return.value <= 10
           /\ SignOfProduct(PriceError(bis_a), PriceError(bis_b)) <= 0

\* C9: when the fallback finds f(0.0001) * f(5.0) > 0 the call returns
\* exactly 0.30 without a bisection iteration and without raising.
C9_NoBracketReturnsDefault ==
    (iv_pc \in {"bisection", "returned"} /\ iv_trace.cause # "none"
        /\ Sgn(PriceError(100)) * Sgn(PriceError(5000000)) > 0) =>
            /\ iv_pc = "returned"
            /\ iv_return.kind = "value"
            /\ iv_return.value = 300000
            /\ iv_trace.bis_runs = 0
            /\ iv_trace.exit = "default"

\* The fallback, entered after two or more Newton iterations, found both
\* endpoints on the same side of the market price and returned.
C9_Witness ==
    /\ iv_pc = "returned"
    /\ iv_trace.exit = "default"
    /\ iv_trace.newton_runs >= 2
    /\ SignOfProduct(bis_fa, bis_fb) > 0
    /\ iv_return.value = 300000

\* C10: a call with spot <= 0, strike <= 0, time to expiry below 1e-10 or a
\* negative market price raises InvalidArgument before any price is computed
\* and before any iteration.
C10_InvalidInputsRejected ==
    (iv_pc # "idle" /\ (spot_price <= 0 \/ strike_price <= 0
                        \/ time_to_expiry <= 0 \/ market_price < 0)) =>
        /\ iv_pc = "threw"
        /\ iv_return.kind = "invalid_argument"
        /\ iv_trace.price_evals = 0
        /\ iv_trace.newton_runs = 0
        /\ iv_trace.bis_runs = 0
        /\ iv_i = 0
        /\ bis_i = 0

\* A call whose only defect is a negative market price has raised.
C10_Witness ==
    /\ iv_pc = "threw"
    /\ market_price < 0
    /\ spot_price > 0
    /\ strike_price > 0
    /\ time_to_expiry > 0

\* C11: the volatility estimate lies in [0.0001, 5.0] at the start of every
\* Newton iteration (the first one and those that follow a clamped step) and
\* when the fallback is entered, and every value calculateImpliedVolatility
\* returns, from the Newton loop, from the bisection or as the 0.3 default,
\* lies in [0.0001, 5.0].
C11_EstimateStaysClamped ==
    /\ iv_pc \in {"newton", "fallback", "bisection"} =>
            (volatility >= 100 /\ volatility <= 5000000)
    /\ iv_return.kind = "value" =>
            (iv_return.value >= 100 /\ iv_return.value <= 5000000)

\* A Newton step was cut at 5.0 and the loop goes on from there.
C11_Witness ==
    /\ iv_pc = "newton"
    /\ iv_i >= 1
    /\ volatility = 5000000

(***************************************************************************)
(* Properties of the pricing kernel and of the Greeks                      *)
(***************************************************************************)
InvalidContract == bs_args.spot <= 0 \/ bs_args.strike <= 0 \/ bs_args.T < 0

\* C12: calculateCallPrice and calculatePutPrice throw invalid_argument
\* whenever spot <= 0, strike <= 0 or T < 0, whatever the rate and the
\* volatility, and return a price for every other input.
C12_PricesThrowExactlyOnInvalidContract ==
    /\ call_price.kind # "none" =>
            call_price.kind = (IF InvalidContract THEN "invalid_argument" ELSE "value")
    /\ put_price.kind # "none" =>
            put_price.kind = (IF InvalidContract THEN "invalid_argument" ELSE "value")

\* Both functions have thrown on an input whose only defect is the negative
\* time.
C12_Witness ==
    /\ call_price.kind = "invalid_argument"
    /\ put_price.kind = "invalid_argument"
    /\ bs_args.spot > 0
    /\ bs_args.strike > 0
    /\ bs_args.T < 0

\* C13: with spot > 0, strike > 0 and 0 <= T < 1e-10 (of the representable
\* times: T = 0) calculateCallPrice returns exactly max(spot - strike, 0) and
\* calculatePutPrice exactly max(strike - spot, 0), by the zero-time rule,
\* whatever the rate and the volatility (a volatility below 1e-10 included).
C13_ZeroTimeGivesIntrinsic ==
    (bs_args.spot > 0 /\ bs_args.strike > 0 /\ bs_args.T = 0) =>
        /\ call_price.kind # "none" =>
                call_price =
                    [kind |-> "value",
                     value |-> IF bs_args.spot > bs_args.strike
                               THEN bs_args.spot - bs_args.strike ELSE 0,
                     rule |-> "zero_time"]
        /\ put_price.kind # "none" =>
                put_price =
                    [kind |-> "value",
                     value |-> IF bs_args.strike > bs_args.spot
                               THEN bs_args.strike - bs_args.spot ELSE 0,
                     rule |-> "zero_time"]

\* Both prices were returned for an input that the zero-time and the
\* zero-volatility rule both cover, in the money for the call.
C13_Witness ==
    /\ call_price.kind = "value"
    /\ put_price.kind = "value"
    /\ bs_args.T = 0
    /\ bs_args.vol <= 0
    /\ bs_args.rate > 0
    /\ bs_args.spot > bs_args.strike
    /\ bs_args.strike > 0

DegenerateInput ==
    bs_args.spot <= 0 \/ bs_args.strike <= 0 \/ bs_args.T <= 0 \/ bs_args.vol <= 0

AllZero(g) ==
    g.delta = 0 /\ g.gamma = 0 /\ g.theta = 0 /\ g.vega = 0 /\ g.rho = 0

\* C14: calculateCallGreeks and calculatePutGreeks never raise, and for every
\* input with spot <= 0, strike <= 0, T < 1e-10 or volatility < 1e-10 they
\* return the result whose five fields are 0.
C14_DegenerateGreeksAreZero ==
    /\ call_greeks.kind \in {"none", "value"}
    /\ put_greeks.kind \in {"none", "value"}
    /\ (bs_pc = "called" /\ DegenerateInput) =>
            /\ call_greeks.kind = "value" => AllZero(call_greeks.greeks)
            /\ put_greeks.kind = "value" => AllZero(put_greeks.greeks)

\* Both functions have returned on an input whose only defect is the
\* volatility.
C14_Witness ==
    /\ call_greeks.kind = "value"
    /\ put_greeks.kind = "value"
    /\ bs_args.spot > 0
    /\ bs_args.strike > 0
    /\ bs_args.T > 0
    /\ bs_args.vol <= 0

\* C15 as stated: on every degenerate input, for which the Greeks are the
\* all-zero result, calculateCallPrice and calculatePutPrice throw
\* invalid_argument.
C15_PricesThrowOnDegenerate ==
    (bs_pc = "called" /\ DegenerateInput) =>
        /\ (call_greeks.kind = "value" /\ call_price.kind # "none") =>
                (AllZero(call_greeks.greeks) /\ call_price.kind = "invalid_argument")
        /\ (put_greeks.kind = "value" /\ put_price.kind # "none") =>
                (AllZero(put_greeks.greeks) /\ put_price.kind = "invalid_argument")

\* C15, amended: on a degenerate input, for which the Greeks are the all-zero
\* result, calculateCallPrice and calculatePutPrice throw invalid_argument
\* exactly when spot <= 0, strike <= 0 or T < 0; on the other degenerate
\* inputs (spot > 0, strike > 0 and 0 <= T < 1e-10 or volatility < 1e-10)
\* they return a price, by the zero-time or the zero-volatility rule.
C15_PricesThrowOnInvalidContractOnly ==
    (bs_pc = "called" /\ DegenerateInput) =>
        /\ (call_greeks.kind = "value" /\ call_price.kind # "none") =>
                /\ AllZero(call_greeks.greeks)
                /\ IF InvalidContract
                   THEN call_price.kind = "invalid_argument"
                   ELSE /\ call_price.kind = "value"
                        /\ call_price.rule \in {"zero_time", "zero_volatility"}
        /\ (put_greeks.kind = "value" /\ put_price.kind # "none") =>
                /\ AllZero(put_greeks.greeks)
                /\ IF InvalidContract
                   THEN put_price.kind = "invalid_argument"
                   ELSE /\ put_price.kind = "value"
                        /\ put_price.rule \in {"zero_time", "zero_volatility"}

\* On an expired option with a positive volatility the Greeks are zero and
\* both prices are returned.
C15_Witness ==
    /\ call_greeks.kind = "value"
    /\ put_greeks.kind = "value"
    /\ call_price.kind = "value"
    /\ put_price.kind = "value"
    /\ call_price.rule = "zero_time"
    /\ bs_args.vol > 0

\* spot - strike * exp(-rate * T)
ParityValue ==
    bs_args.spot - MulFix(bs_args.strike, Discount(bs_args.rate, bs_args.T))

\* C16: put-call parity. For spot > 0, strike > 0 and T >= 0, whatever the
\* branch that computes the prices, both prices are finite and
\* callPrice - putPrice is spot - strike * exp(-rate * T), to within 0.00002.
C16_PutCallParity ==
    (call_price.kind = "value" /\ put_price.kind = "value") =>
        /\ IsFinite(call_price.value)
        /\ IsFinite(put_price.value)
        /\ Abs(call_price.value - put_price.value - ParityValue) <= 20

(***************************************************************************)
(* Properties of the strategies and of their factory                       *)
(***************************************************************************)
FromFactory == st_pc = "constructed" /\ st_request.via = "createStrategy"

\* C17: on a strategy returned by createStrategy, after any sequence of calls
\* of its member functions, getStockPosition, getOptions and getEntryPrice
\* return what they returned right after construction.
C17_GettersFixedAfterConstruction ==
    FromFactory =>
        /\ st_call.op = "getStockPosition" =>
                st_call.result.value = st_initial.stock_position
        /\ st_call.op = "getOptions" => st_call.result.value = st_initial.options
        /\ st_call.op = "getEntryPrice" =>
                st_call.result.value = st_initial.entry_price

\* C18: the constructor of BullCallSpreadStrategy called with
\* long_strike >= short_strike, and that of BearPutSpreadStrategy called with
\* long_strike <= short_strike, throw invalid_argument before any leg is
\* priced or added, and no spread object with its strikes in the wrong
\* order exists.
C18_InvalidStrikeOrderRejected ==
    /\ (/\ st_pc # "idle"
        /\ \/ /\ st_request.via = "BullCallSpreadStrategy"
              /\ st_request.long_strike >= st_request.short_strike
           \/ /\ st_request.via = "BearPutSpreadStrategy"
              /\ st_request.long_strike <= st_request.short_strike) =>
            /\ st_pc = "threw"
            /\ st_ctor = [thrown_by |-> "strike_order", priced |-> 0, added |-> 0]
            /\ strategy.variant = "none"
            /\ strategy.options = <<>>
    /\ strategy.variant = "BullCallSpreadStrategy" =>
            strategy.long_call_strike < strategy.short_call_strike
    /\ strategy.variant = "BearPutSpreadStrategy" =>
            strategy.long_put_strike > strategy.short_put_strike

\* A bull call spread with equal strikes was refused although its legs
\* could have been priced.
C18_Witness ==
    /\ st_pc = "threw"
    /\ st_request.via = "BullCallSpreadStrategy"
    /\ st_request.long_strike = st_request.short_strike
    /\ st_request.current_price > 0
    /\ st_request.T > 0
    /\ st_ctor.priced = 0

ImplementedTypes ==
    {"COVERED_CALL", "PROTECTIVE_PUT", "BULL_CALL_SPREAD", "BEAR_PUT_SPREAD",
     "STRADDLE"}

\* current_price * 0.95 and current_price * 1.05
Spot095 == (st_request.current_price * 95) \div 100
Spot105 == (st_request.current_price * 105) \div 100

LegIs(leg, type, strike) == leg.type = type /\ leg.strike = strike

\* C19: createStrategy returns, for each of the five kinds, the variant of
\* that kind with the default strikes (covered call: 100 shares and a call
\* at 1.05 spot, its premium received; protective put: 100 shares and a put
\* at 0.95 spot, its premium paid; bull call spread: calls at 0.95 and 1.05
\* spot, the first bought and the second sold; bear put spread: puts at 1.05
\* and 0.95 spot, the first bought and the second sold; straddle: a call and
\* a put at spot, both bought), and throws invalid_argument for every other
\* kind.
C19_FactoryDefaults ==
    (st_pc # "idle" /\ st_request.via = "createStrategy") =>
        LET type == st_request.type
            legs == st_initial.options
        IN /\ type \notin ImplementedTypes =>
                (st_pc = "threw" /\ st_ctor.thrown_by = "not_implemented"
                 /\ strategy.variant = "none")
           /\ (type \in ImplementedTypes /\ st_request.current_price > 0
               /\ st_request.T >= 0) => st_pc = "constructed"
           /\ st_pc = "constructed" =>
                CASE type = "COVERED_CALL" ->
                        /\ strategy.variant = "CoveredCallStrategy"
                        /\ Len(legs) = 1
                        /\ LegIs(legs[1], "CALL", Spot105)
                        /\ st_initial.stock_position = 100
                        /\ st_initial.entry_price =
                                100 * st_request.current_price
                                - 100 * legs[1].current_price
                  [] type = "PROTECTIVE_PUT" ->
                        /\ strategy.variant = "ProtectivePutStrategy"
                        /\ Len(legs) = 1
                        /\ LegIs(legs[1], "PUT", Spot095)
                        /\ st_initial.stock_position = 100
                        /\ st_initial.entry_price =
                                100 * st_request.current_price
                                + 100 * legs[1].current_price
                  [] type = "BULL_CALL_SPREAD" ->
                        /\ strategy.variant = "BullCallSpreadStrategy"
                        /\ Len(legs) = 2
                        /\ LegIs(legs[1], "CALL", Spot095)
                        /\ LegIs(legs[2], "CALL", Spot105)
                        /\ strategy.long_call_strike = Spot095
                        /\ strategy.short_call_strike = Spot105
                        /\ st_initial.entry_price =
                                100 * (legs[1].current_price - legs[2].current_price)
                  [] type = "BEAR_PUT_SPREAD" ->
                        /\ strategy.variant = "BearPutSpreadStrategy"
                        /\ Len(legs) = 2
                        /\ LegIs(legs[1], "PUT", Spot105)
                        /\ LegIs(legs[2], "PUT", Spot095)
                        /\ strategy.long_put_strike = Spot105
                        /\ strategy.short_put_strike = Spot095
                        /\ st_initial.entry_price =
                                100 * (legs[1].current_price - legs[2].current_price)
                  [] type = "STRADDLE" ->
                        /\ strategy.variant = "StraddleStrategy"
                        /\ Len(legs) = 2
                        /\ LegIs(legs[1], "CALL", st_request.current_price)
                        /\ LegIs(legs[2], "PUT", st_request.current_price)
                        /\ strategy.strike_price = st_request.current_price
                        /\ st_initial.entry_price =
                                100 * (legs[1].current_price + legs[2].current_price)
                  [] OTHER -> FALSE

\* The factory has returned a bear put spread.
C19_Witness ==
    /\ FromFactory
    /\ st_request.type = "BEAR_PUT_SPREAD"
    /\ strategy.variant = "BearPutSpreadStrategy"
    /\ Len(strategy.options) = 2

\* the prices calculateBreakevens() returns
Breakevens ==
    {calculateBreakevens(strategy).value[i] :
        i \in 1..Len(calculateBreakevens(strategy).value)}

\* C20: on a strategy as constructed, of any variant, the profit/loss at
\* expiry at each price that calculateBreakevens() returns is defined
\* (calculateProfitLoss does not throw) and is zero, to within 0.00001.
C20_ProfitLossZeroAtBreakevens ==
    (/\ st_pc = "constructed"
     /\ Getters(strategy) = st_initial
     /\ st_call.op = "calculateProfitLoss"
     /\ st_call.args[1] \in Breakevens) =>
        /\ st_call.result.kind = "value"
        /\ Abs(st_call.result.value) <= 10

\* C21: for a StraddleStrategy, calculateMaxLoss() equals
\* (call_premium + put_premium) * 100 and equals the entry price, and
\* calculateBreakevens() returns strike - maxLoss/100 followed by
\* strike + maxLoss/100.
C21_StraddleMaxLossAndBreakevens ==
    strategy.variant = "StraddleStrategy" =>
        LET max_loss == calculateMaxLoss(strategy).value
        IN /\ max_loss = (strategy.call_premium + strategy.put_premium) * 100
           /\ max_loss = strategy.entry_price
           /\ calculateBreakevens(strategy).value =
                <<strategy.strike_price - DivInt(max_loss, 100),
                  strategy.strike_price + DivInt(max_loss, 100)>>

(***************************************************************************)
(* Properties of the chunk tasks                                           *)
(***************************************************************************)
\* 252 * T rounded to the nearest integer
RoundedSteps(T) == (2 * TRADING_DAYS_PER_YEAR * T + YearParts) \div (2 * YearParts)

\* C22: every path a chunk has simulated took round(252 * T) steps, for
\* every T >= 0.
C22_PathsTakeRoundedSteps ==
    ck_args.T >= 0 =>
        \A k \in 1..Len(ck_paths) : ck_paths[k] = RoundedSteps(ck_args.T)

\* C23: a call with num_simulations < 1 does what a call with
\* num_simulations = 1 does: n is 1, the one chunk is [0, 1), the sum of the
\* payoffs is that chunk's and is divided by 1, and a callback that was
\* passed is invoked once, with (1, 1).
C23_BelowOneIsOne ==
    (mc_pc # "idle" /\ num_simulations < 1) =>
        /\ n = 1
        /\ chunk_size = ChunkSize(1, n_workers)
        /\ Len(futures) <= 1
        /\ \A k \in 1..Len(futures) :
                futures[k].sim_begin = 0 /\ futures[k].sim_end = 1
        /\ mc_pc \in {"collect", "returned"} => Len(futures) = 1
        /\ Len(cb_log) <= 1
        /\ \A k \in 1..Len(cb_log) : cb_log[k].done = 1 /\ cb_log[k].total = 1
        /\ mc_pc = "returned" =>
                /\ mc_return.count = 1
                /\ mc_return.sum = futures[1].value
                /\ Len(cb_log) = (IF progress_cb THEN 1 ELSE 0)

\* A call with a callback and a count below 1 has returned a non-zero sum.
C23_Witness ==
    /\ mc_pc = "returned"
    /\ num_simulations < 1
    /\ progress_cb
    /\ Len(cb_log) = 1
    /\ mc_return.sum > 0

\* C24: within one call no two chunk tasks are given the same seed.
C24_SeedsAreUnique ==
    \A j, k \in 1..Len(futures) :
        (j # k /\ futures[j].seed # NoSeed /\ futures[k].seed # NoSeed) =>
            futures[j].seed # futures[k].seed

C26_BatchAttemptsEverySymbol ==
    /\ \A k \in 1..Len(stock_symbols) :
        /\ Len(cli_attempts[k]) <= 3
        /\ \A j \in 1..(Len(cli_attempts[k]) - 1) : ~cli_attempts[k][j]
        /\ (Len(cli_attempts[k]) = 3 /\ ~cli_attempts[k][3] /\ k < cli_symbol) =>
                stock_symbols[k] \notin cli_reported
    /\ cli_pc \in {"done", "error"} =>
            \A k \in 1..Len(stock_symbols) : Len(cli_attempts[k]) >= 1

(***************************************************************************)
(* Properties of the spreads                                               *)
(***************************************************************************)
IsSpread == strategy.variant \in {"BullCallSpreadStrategy", "BearPutSpreadStrategy"}

\* the strikes of the spread, the lower one first
SpreadStrikes ==
    IF strategy.variant = "BullCallSpreadStrategy"
    THEN <<strategy.long_call_strike, strategy.short_call_strike>>
    ELSE <<strategy.short_put_strike, strategy.long_put_strike>>

\* calculateValue(price, 0) was called on a spread with price > 0
ValuedAtExpiry ==
    /\ st_pc = "constructed"
    /\ IsSpread
    /\ st_call.op = "calculateValue"
    /\ st_call.args[1] > 0
    /\ st_call.args[2] = 0

\* C27: for a bull call spread or a bear put spread and every price > 0,
\* value(price, 0) - entryPrice is defined, lies between -maxLoss() and
\* maxProfit(), is -maxLoss() when both legs expire worthless and is
\* maxProfit() when both legs expire in the money.
C27_SpreadProfitLossIsBounded ==
    ValuedAtExpiry =>
        LET price == st_call.args[1]
            pl == st_call.result.value - strategy.entry_price
            max_loss == calculateMaxLoss(strategy).value
            max_profit == calculateMaxProfit(strategy).value
            calls == strategy.variant = "BullCallSpreadStrategy"
            below == price <= SpreadStrikes[1]
            above == price >= SpreadStrikes[2]
        IN /\ st_call.result.kind = "value"
           /\ -max_loss <= pl /\ pl <= max_profit
           /\ ((calls /\ below) \/ (~calls /\ above)) => pl = -max_loss
           /\ ((calls /\ above) \/ (~calls /\ below)) => pl = max_profit

\* A bear put spread built by its constructor was valued at expiry at a
\* price below both strikes, both puts in the money.
C27_Witness ==
    /\ ValuedAtExpiry
    /\ st_request.via = "BearPutSpreadStrategy"
    /\ st_call.args[1] < SpreadStrikes[1]
    /\ st_call.result.value - strategy.entry_price = calculateMaxProfit(strategy).value
    /\ strategy.entry_price > 0

(***************************************************************************)
(* Properties of the paper-trading ledger                                  *)
(***************************************************************************)
\* C28: buyOption returns false and changes nothing when quantity <= 0 or
\* when price * quantity plus 1 per contract exceeds the cash balance;
\* otherwise it returns true, appends one position with that quantity and
\* entry price, and lowers cash by price * quantity + quantity.
C28_BuyOptionChecksFunds ==
    pt_call.op = "buyOption" =>
        LET q == pt_call.quantity
            price == pt_call.option.current_price
        IN IF q <= 0 \/ price * q + q > pt_call.cash_before
           THEN /\ ~pt_call.result
                /\ cash_balance = pt_call.cash_before
                /\ open_positions = pt_call.positions_before
           ELSE /\ pt_call.result
                /\ Len(open_positions) = Len(pt_call.positions_before) + 1
                /\ SubSeq(open_positions, 1, Len(pt_call.positions_before))
                        = pt_call.positions_before
                /\ open_positions[Len(open_positions)].quantity = q
                /\ open_positions[Len(open_positions)].entry_price = price
                /\ cash_balance = pt_call.cash_before - (price * q + q)

\* A purchase that took all the cash, fee included, went through.
C28_Witness ==
    /\ pt_call.op = "buyOption"
    /\ pt_call.result
    /\ pt_call.option.current_price > 0
    /\ cash_balance = 0
    /\ pt_call.cash_before > 0

\* C29: sellOption called with quantity <= 0 returns false and leaves the
\* cash balance and the quantity of every open position unchanged.
C29_SellOptionRejectsNonPositive ==
    (pt_call.op = "sellOption" /\ pt_call.quantity <= 0) =>
        /\ ~pt_call.result
        /\ cash_balance = pt_call.cash_before
        /\ open_positions = pt_call.positions_before

\* C30: from a non-negative initial balance, after calls of buyOption,
\* sellOption and closeExpiredPositions with positive quantities and
\* non-negative prices only, the cash balance is not negative.
C30_CashNeverNegative ==
    (pt_pc = "open" /\ pt_call.clean) => cash_balance >= 0

====
